---- MODULE Spec2Model ----
(***************************************************************************)
(* Release engine (release/releaser.go) and release worker                 *)
(* (release/worker.go) of flux.                                            *)
(*                                                                         *)
(* Two goroutines may call releaser.Release on the one releaser: the       *)
(* worker loop ("w"), which takes its jobs from the job store, and a       *)
(* second caller ("d") that holds a job of its own.  The platform, the     *)
(* registry, the repo and the file system are the environment: what they   *)
(* answer is drawn from small sets at the moment the code asks.            *)
(*                                                                         *)
(* The older Releaser (release/release.go), which plans and executes       *)
(* inside the caller's request, the fan-out of ListServices and            *)
(* ListImages (server/server.go) and Cluster.Regrade                       *)
(* (platform/kubernetes/kubernetes.go) are modelled beside it, each with   *)
(* a specification of its own.  FairSpec is Spec with the worker's         *)
(* goroutine kept running, FairSpecServer the fan-out with its goroutines  *)
(* kept running, SpecWorker the worker alone with two queued jobs.         *)
(*                                                                         *)
(* Four smaller parts have a variable and a specification each:            *)
(* manifests.LoadManifests (SpecManifests), the Exec functions of a        *)
(* ConfigFile (SpecConfigFile), ReleaseContext.SelectWorkloads             *)
(* (SpecSelect) and the resource cache of checkoutManager (SpecCheckout).  *)
(***************************************************************************)
EXTENDS Integers, Sequences, FiniteSets, TLC

\* ---------------------------------------------------------------- bounds
MaxJobs == 2
MaxDirect == 1
MaxStoreFailures == 1
\* the services the platform lists to the server
MaxListed == 8
\* the longest batch handed to Cluster.Regrade
MaxBatch == 2
\* the calls of Cluster.Regrade
MaxCalls == 2
\* the calls of LoadManifests
MaxLoads == 4
\* the commands of a kind in a configuration file
MaxCommands == 3
\* the workloads of the repo and the cluster
MaxWorkloads == 3
\* the modifications written to the files of a checkout
MaxMods == 2

\* ------------------------------------------------------ program constants
\* (a semaphore channel made without a buffer)
maxSimultaneousReleasesNone == 1 - 1

maxSimultaneousReleases == 1

ServiceSpecAll == "<all>"
ImageSpecLatest == "<all latest>"
ImageSpecNone == "<no updates>"
ReleaseKindPlan == "plan"
ReleaseKindExecute == "execute"

\* ----------------------------------------------------------- small worlds
Services == {"default/a", "default/b"}
\* the order in which the platform lists the services
ServiceOrder == <<"default/a", "default/b">>
\* the orders a Go map over ServiceID can be ranged in
MapOrders == {<<"default/a", "default/b">>, <<"default/b", "default/a">>}
ImageStrings == {"r:1", "r:2", "q:1"}
\* the registry's answers: per repository the tags it knows
RegistryStates ==
  { [r |-> {1, 2}, q |-> {1}], [r |-> {1}, q |-> {1}], [r |-> {}, q |-> {}] }
\* what the platform reports for one service: an error, one container "c"
\* with the image named, or two containers with old images of r and of q
ContainerStates == {"err", "r:1", "r:2", "q:1", "r:0+q:0"}
Containers(state) ==
  IF state = "r:0+q:0"
  THEN <<[Name |-> "c", Image |-> "r:0"], [Name |-> "c2", Image |-> "q:0"]>>
  ELSE <<[Name |-> "c", Image |-> state]>>
\* the image of the first container
FirstImage(state) == Containers(state)[1].Image

ServiceSpecs == {ServiceSpecAll, "default/a", "nonsense"}
ImageSpecs == {ImageSpecLatest, ImageSpecNone, "r:2"}
ExcludeSets == {{}, {"default/a"}}
JobSpecs ==
  [ServiceSpec : ServiceSpecs, ImageSpec : ImageSpecs,
   Kind : {ReleaseKindPlan, ReleaseKindExecute}, Excludes : ExcludeSets]

\* the specs the jobs of the full system are drawn from: a plan, an excluded
\* service, an unparsable service and one executed release
QueueSpecs ==
  { [ServiceSpec |-> "default/a", ImageSpec |-> ImageSpecNone,
     Kind |-> ReleaseKindPlan, Excludes |-> {}],
    [ServiceSpec |-> "nonsense", ImageSpec |-> ImageSpecLatest,
     Kind |-> ReleaseKindExecute, Excludes |-> {}] }
DirectSpecs ==
  { [ServiceSpec |-> "default/a", ImageSpec |-> ImageSpecNone,
     Kind |-> ReleaseKindExecute, Excludes |-> {"default/a"}] }

Callers == {"w", "d"}

\* ------------------------------------------------------- errors and lines
\* An error value: msg "" is the nil error; svcs are the services the
\* message names (the keys of a RegradeError).
Err(msg, svcs) == [msg |-> msg, svcs |-> svcs]
NoErr == Err("", {})
ErrInProgress == Err("a release is already in progress; please try again later", {})

\* A line of text (a status, a log line, a description): fixed prefix,
\* text and the services it names.
Line(text, svcs) == [pre |-> "", text |-> text, svcs |-> svcs]
ErrLine(e) == [pre |-> "", text |-> e.msg, svcs |-> e.svcs]
FailedLine(e) == [pre |-> "Failed: ", text |-> e.msg, svcs |-> e.svcs]
NoLine == Line("", {})

\* ------------------------------------------------------------ identifiers
\* flux.ParseServiceID: "namespace/name" or an error
ParseServiceID(s) ==
  IF s \in Services THEN [id |-> s, err |-> NoErr]
  ELSE [id |-> "", err |-> Err("parsing service ID from spec", {})]

\* flux.ParseImageID, on the image strings of this world
ParseImageID(s) ==
  CASE s = "r:0" -> [repo |-> "r", tag |-> 0]
    [] s = "q:0" -> [repo |-> "q", tag |-> 0]
    [] s = "r:1" -> [repo |-> "r", tag |-> 1]
    [] s = "r:2" -> [repo |-> "r", tag |-> 2]
    [] s = "q:1" -> [repo |-> "q", tag |-> 1]
    [] OTHER -> [repo |-> s, tag |-> 0]

Repository(img) == img.repo

SetMax(S) == CHOOSE x \in S : \A y \in S : y <= x

\* images.LatestImage(repo): the image with the greatest creation time
\* (tags are numbered in creation order), an error when none is known
LatestImage(reg, repo) ==
  LET tags == IF repo = "r" THEN reg.r ELSE IF repo = "q" THEN reg.q ELSE {}
  IN IF tags = {} THEN [ID |-> [repo |-> repo, tag |-> 0],
                        err |-> Err("getting latest image", {})]
     ELSE [ID |-> [repo |-> repo, tag |-> SetMax(tags)], err |-> NoErr]

\* a platform service as the helper returns it
PlatformService(s, cont) == [ID |-> s, state |-> cont[s]]

\* service.ContainersOrError
ContainersOrError(service) ==
  IF service.state = "err"
  THEN [containers |-> <<>>, err |-> Err("no matching images", {})]
  ELSE [containers |-> Containers(service.state), err |-> NoErr]

SeqOfSet(S, order) == SelectSeq(order, LAMBDA s : s \in S)
Range(f) == {f[i] : i \in DOMAIN f}

\* helper.GetAllServices(""): every service of the platform
GetAllServices(present, cont) ==
  LET ids == SeqOfSet(present, ServiceOrder)
  IN [i \in DOMAIN ids |-> PlatformService(ids[i], cont)]

\* helper.GetAllServicesExcept("", exclude)
GetAllServicesExcept(present, cont, exclude) ==
  LET ids == SeqOfSet(present \ exclude, ServiceOrder)
  IN [i \in DOMAIN ids |-> PlatformService(ids[i], cont)]

\* helper.GetServices(ids): the named services that exist
GetServices(wanted, present, cont) ==
  LET ids == SeqOfSet(wanted \cap present, ServiceOrder)
  IN [i \in DOMAIN ids |-> PlatformService(ids[i], cont)]

\* ------------------------------------------------------- release actions
\* A flux.ReleaseAction: the closure Do is its type with the values it
\* captured (service list, regrades, cause).
Action(type, desc, svcs, regrades, cause) ==
  [type |-> type, Description |-> desc, services |-> svcs,
   regrades |-> regrades, cause |-> cause, Result |-> NoLine]

releaseActionPrintf(text, svcs) ==
  Action("printf", Line(text, svcs), <<>>, <<>>, "")

releaseActionClone ==
  Action("clone", Line("Clone the config repo.", {}), <<>>, <<>>, "")

releaseActionFindPodControllerPlan(service) ==
  Action("find", Line("Load the resource definition file for service", {service}),
         <<service>>, <<>>, "")

releaseActionUpdatePodControllerPlan(service, regrades) ==
  Action("update", Line("Update images(s) in the resource definition file for", {service}),
         <<service>>, regrades, "")

releaseActionCommitAndPushPlan(msg) ==
  Action("commit", Line("Commit and push the config repo.", {}), <<>>, <<>>, msg)

releaseActionRegradeServicesPlan(services, cause) ==
  Action("regrade", Line("Regrade service(s):", Range(services)), services, <<>>, cause)

containerRegrade(container, current, target) ==
  [container |-> container, current |-> current, target |-> target]

\* the keys of a regradeMap: the services with at least one regrade
RegradeKeys(regradeMap) == {s \in Services : regradeMap[s] # <<>>}
EmptyRegradeMap == [s \in Services |-> <<>>]

Plan(res, err) == [res |-> res, err |-> err]

\* (a planner that never finds the regrade set empty)
NothingToDoNever(regradeMap) == FALSE

\* len(regradeMap) <= 0: no service has a container to regrade
NothingToDo(regradeMap) == RegradeKeys(regradeMap) = {}

\* ---------------------------------------------------------------- planners
\* What the platform and the registry answer while one plan is computed:
\*   svcErr   the service listing fails
\*   present  the services the platform has
\*   cont     per service its container state
\*   imgErr   CollectAvailableImages fails
\*   reg      the registry's tags
\*   order1, order2  the orders of the two ranges over regradeMap
\* (answers that cannot matter after a failure are fixed)
PlanInputs ==
  { in \in [svcErr : BOOLEAN, present : SUBSET Services,
            cont : [Services -> ContainerStates], imgErr : BOOLEAN,
            reg : RegistryStates, order1 : MapOrders, order2 : MapOrders] :
      /\ in.svcErr => /\ in.present = Services
                      /\ in.cont = [s \in Services |-> "err"]
                      /\ ~in.imgErr
      /\ (in.svcErr \/ in.imgErr) => /\ in.reg = [r |-> {}, q |-> {}]
                                     /\ in.order1 = ServiceOrder
                                     /\ in.order2 = ServiceOrder }

\* (a comparison that never finds the two images equal)
SameImageNever(a, b) == FALSE

\* == on two ImageIDs
SameImage(a, b) == a = b

\* acc: [res, regradeMap, err]; the container loop of releaseAllToLatest
RECURSIVE LatestContainers(_, _, _, _, _)
LatestContainers(service, containers, j, reg, acc) ==
  IF j > Len(containers) \/ acc.err # NoErr THEN acc
  ELSE
    LET currentImageID == ParseImageID(containers[j].Image)
        latestImage == LatestImage(reg, Repository(currentImageID))
    IN IF latestImage.err # NoErr
       THEN [acc EXCEPT !.err = Err("getting latest image from", {})]
       ELSE IF SameImage(currentImageID, latestImage.ID)
       THEN LatestContainers(service, containers, j + 1, reg,
              [acc EXCEPT !.res = Append(@, releaseActionPrintf(
                 "Service image is already the latest one; skipping.", {}))])
       ELSE LatestContainers(service, containers, j + 1, reg,
              [acc EXCEPT !.regradeMap[service.ID] = Append(@,
                 containerRegrade(containers[j].Name, currentImageID, latestImage.ID))])

RECURSIVE LatestServices(_, _, _, _)
LatestServices(services, i, reg, acc) ==
  IF i > Len(services) \/ acc.err # NoErr THEN acc
  ELSE
    LET service == services[i]
        c == ContainersOrError(service)
    IN IF c.err # NoErr
       THEN LatestServices(services, i + 1, reg,
              [acc EXCEPT !.res = Append(@, releaseActionPrintf(
                 "service does not have images associated:", {service.ID}))])
       ELSE LatestServices(services, i + 1, reg,
              LatestContainers(service, c.containers, 1, reg, acc))

\* the container loop of releaseAllForImage and releaseOne
RECURSIVE TargetContainers(_, _, _, _, _)
TargetContainers(service, containers, j, target, acc) ==
  IF j > Len(containers) THEN acc
  ELSE
    LET candidate == ParseImageID(containers[j].Image)
    IN IF Repository(candidate) # Repository(target)
       THEN TargetContainers(service, containers, j + 1, target, acc)
       ELSE IF SameImage(candidate, target)
       THEN TargetContainers(service, containers, j + 1, target,
              [acc EXCEPT !.res = Append(@, releaseActionPrintf(
                 "Service image matches the target image exactly. Skipping.", {service.ID}))])
       ELSE TargetContainers(service, containers, j + 1, target,
              [acc EXCEPT !.regradeMap[service.ID] = Append(@,
                 containerRegrade(containers[j].Name, candidate, target))])

RECURSIVE TargetServices(_, _, _, _)
TargetServices(services, i, target, acc) ==
  IF i > Len(services) THEN acc
  ELSE
    LET service == services[i]
        c == ContainersOrError(service)
    IN IF c.err # NoErr
       THEN TargetServices(services, i + 1, target,
              [acc EXCEPT !.res = Append(@, releaseActionPrintf(
                 "service does not have images associated:", {service.ID}))])
       ELSE TargetServices(services, i + 1, target,
              TargetContainers(service, c.containers, 1, target, acc))

\* (a loop over every service instead of the keys of regradeMap)
UpdateActionsAll(regradeMap, order) ==
  [i \in DOMAIN order |->
     releaseActionUpdatePodControllerPlan(order[i], regradeMap[order[i]])]

\* one update-pod-controller action per key of regradeMap, in range order
UpdateActions(regradeMap, order) ==
  LET keys == SeqOfSet(RegradeKeys(regradeMap), order)
  IN [i \in DOMAIN keys |->
        releaseActionUpdatePodControllerPlan(keys[i], regradeMap[keys[i]])]

\* (a planner that loads no resource definition file)
FindActionsNone(services) == <<>>

FindActions(services) ==
  [i \in DOMAIN services |-> releaseActionFindPodControllerPlan(services[i].ID)]

ServiceIDs(services) == [i \in DOMAIN services |-> services[i].ID]

releaseAllToLatest(exclude, in) ==
  LET res0 == <<releaseActionPrintf(
                  "I'm going to release all services to their latest images.", {})>>
      services == GetAllServices(in.present, in.cont)
      acc == LatestServices(services, 1, in.reg,
                            [res |-> res0, regradeMap |-> EmptyRegradeMap, err |-> NoErr])
  IN IF in.svcErr THEN Plan(res0, Err("fetching all platform services", {}))
     ELSE IF in.imgErr
     THEN Plan(res0, Err("collecting available images to calculate regrades", {}))
     ELSE IF acc.err # NoErr THEN Plan(acc.res, acc.err)
     ELSE IF NothingToDo(acc.regradeMap)
     THEN Plan(Append(acc.res, releaseActionPrintf(
                 "All services are running the latest images. Nothing to do.", {})), NoErr)
     ELSE Plan(acc.res \o <<releaseActionClone>>
                 \o UpdateActions(acc.regradeMap, in.order1)
                 \o <<releaseActionCommitAndPushPlan("Release latest images to all services"),
                      releaseActionRegradeServicesPlan(
                        SeqOfSet(RegradeKeys(acc.regradeMap), in.order2),
                        "latest images (to all services)")>>, NoErr)

releaseAllForImage(target, exclude, in) ==
  LET res0 == <<releaseActionPrintf(
                  "I'm going to release image to all services that would use it.", {})>>
      services == GetAllServicesExcept(in.present, in.cont, exclude)
      acc == TargetServices(services, 1, target,
                            [res |-> res0, regradeMap |-> EmptyRegradeMap, err |-> NoErr])
  IN IF in.svcErr THEN Plan(res0, Err("fetching all platform services", {}))
     ELSE IF NothingToDo(acc.regradeMap)
     THEN Plan(Append(acc.res, releaseActionPrintf(
                 "All matching services are already running image. Nothing to do.", {})), NoErr)
     ELSE Plan(acc.res \o <<releaseActionClone>>
                 \o UpdateActions(acc.regradeMap, in.order1)
                 \o <<releaseActionCommitAndPushPlan("Release to all services"),
                      releaseActionRegradeServicesPlan(
                        SeqOfSet(RegradeKeys(acc.regradeMap), in.order2),
                        "(to all services)")>>, NoErr)

releaseOneToLatest(serviceID, exclude, in) ==
  LET res0 == <<releaseActionPrintf(
                  "I'm going to release the latest images(s) for service", {serviceID})>>
      services == GetServices({serviceID}, in.present, in.cont)
      c == ContainersOrError(services[1])
      acc == LatestContainers(services[1], c.containers, 1, in.reg,
                              [res |-> res0, regradeMap |-> EmptyRegradeMap, err |-> NoErr])
      regrades == acc.regradeMap[serviceID]
  IN IF serviceID \in exclude
     THEN Plan(Append(res0, releaseActionPrintf(
                 "Specified service is excluded; ignoring.", {serviceID})), NoErr)
     ELSE IF in.svcErr THEN Plan(res0, Err("fetching service from platform", {serviceID}))
     ELSE IF Len(services) # 1
     THEN Plan(res0, Err("expected exactly 1 service, found 0", {}))
     ELSE IF c.err # NoErr
     THEN Plan(res0, Err("service has no associated images", {serviceID}))
     ELSE IF in.imgErr THEN Plan(res0, Err("fetching images for service", {serviceID}))
     ELSE IF acc.err # NoErr THEN Plan(acc.res, acc.err)
     ELSE IF Len(regrades) <= 0
     THEN Plan(Append(acc.res, releaseActionPrintf(
                 "The service is already running the latest version of all its images. Nothing to do.",
                 {})), NoErr)
     ELSE Plan(acc.res \o
                 <<releaseActionClone,
                   releaseActionUpdatePodControllerPlan(serviceID, regrades),
                   releaseActionCommitAndPushPlan("Release latest images to"),
                   releaseActionRegradeServicesPlan(<<serviceID>>, "latest images")>>, NoErr)

releaseOne(serviceID, target, exclude, in) ==
  LET res0 == <<releaseActionPrintf("I'm going to release image to service", {serviceID})>>
      services == GetServices({serviceID}, in.present, in.cont)
      c == ContainersOrError(services[1])
      acc == TargetContainers(services[1], c.containers, 1, target,
                              [res |-> res0, regradeMap |-> EmptyRegradeMap, err |-> NoErr])
      regrades == acc.regradeMap[serviceID]
  IN IF serviceID \in exclude
     THEN Plan(Append(res0, releaseActionPrintf(
                 "Specified service is excluded; ignoring.", {serviceID})), NoErr)
     ELSE IF in.svcErr THEN Plan(res0, Err("fetching service from platform", {serviceID}))
     ELSE IF Len(services) # 1
     THEN Plan(res0, Err("expected exactly 1 service, found 0", {}))
     ELSE IF c.err # NoErr
     THEN Plan(res0, Err("service has no associated images", {serviceID}))
     ELSE IF Len(regrades) <= 0
     THEN Plan(Append(acc.res, releaseActionPrintf(
                 "All matching services are already running image. Nothing to do.", {})), NoErr)
     ELSE Plan(acc.res \o
                 <<releaseActionClone,
                   releaseActionUpdatePodControllerPlan(serviceID, regrades),
                   releaseActionCommitAndPushPlan("Release to"),
                   releaseActionRegradeServicesPlan(<<serviceID>>, "target image")>>, NoErr)

releaseOneWithoutUpdate(serviceID, exclude, in) ==
  IF serviceID \in exclude
  THEN Plan(<<releaseActionPrintf("Specified service is excluded; ignoring.", {serviceID})>>,
            NoErr)
  ELSE Plan(<<releaseActionPrintf(
                "I'm going to release service using the config from the git repo, without updating it",
                {serviceID}),
              releaseActionClone,
              releaseActionFindPodControllerPlan(serviceID),
              releaseActionRegradeServicesPlan(<<serviceID>>, "without update")>>, NoErr)

releaseAllWithoutUpdate(exclude, in) ==
  LET services == GetAllServicesExcept(in.present, in.cont, exclude)
  IN IF in.svcErr THEN Plan(<<>>, Err("fetching all platform services", {}))
     ELSE Plan(<<releaseActionPrintf(
                   "I'm going to release all services using the config from the git repo, without updating it.",
                   {}),
                 releaseActionClone>>
                 \o FindActions(services)
                 \o <<releaseActionRegradeServicesPlan(ServiceIDs(services),
                        "without update (all services)")>>, NoErr)

\* (a switch whose case for all services comes before the NoChange case)
releaseTypeAllFirst(spec) ==
  CASE spec.ServiceSpec = ServiceSpecAll /\ spec.ImageSpec = ImageSpecLatest
         -> "release_all_to_latest"
    [] spec.ServiceSpec = ServiceSpecAll /\ spec.ImageSpec # ImageSpecLatest
         -> "release_all_for_image"
    [] spec.ServiceSpec # ServiceSpecAll /\ spec.ImageSpec = ImageSpecLatest
         -> "release_one_to_latest"
    [] spec.ServiceSpec # ServiceSpecAll /\ spec.ImageSpec = ImageSpecNone
         -> "release_one_without_update"
    [] OTHER -> "release_one"

\* the switch of releaser.Release: which planner a spec is given to
releaseType(spec) ==
  CASE spec.ServiceSpec = ServiceSpecAll /\ spec.ImageSpec = ImageSpecLatest
         -> "release_all_to_latest"
    [] spec.ServiceSpec = ServiceSpecAll /\ spec.ImageSpec = ImageSpecNone
         -> "release_all_without_update"
    [] spec.ServiceSpec = ServiceSpecAll /\ spec.ImageSpec \notin {ImageSpecLatest, ImageSpecNone}
         -> "release_all_for_image"
    [] spec.ServiceSpec # ServiceSpecAll /\ spec.ImageSpec = ImageSpecLatest
         -> "release_one_to_latest"
    [] spec.ServiceSpec # ServiceSpecAll /\ spec.ImageSpec = ImageSpecNone
         -> "release_one_without_update"
    [] OTHER -> "release_one"

\* the plan (or planning error) releaser.Release computes for a spec
PlanFor(spec, in) ==
  LET exclude == spec.Excludes
      t == releaseType(spec)
      sid == ParseServiceID(spec.ServiceSpec)
  IN CASE t = "release_all_to_latest" -> releaseAllToLatest(exclude, in)
       [] t = "release_all_without_update" -> releaseAllWithoutUpdate(exclude, in)
       [] t = "release_all_for_image" ->
            releaseAllForImage(ParseImageID(spec.ImageSpec), exclude, in)
       [] OTHER ->
            IF sid.err # NoErr THEN Plan(<<>>, sid.err)
            ELSE CASE t = "release_one_to_latest" -> releaseOneToLatest(sid.id, exclude, in)
                   [] t = "release_one_without_update" ->
                        releaseOneWithoutUpdate(sid.id, exclude, in)
                   [] OTHER -> releaseOne(sid.id, ParseImageID(spec.ImageSpec), exclude, in)

\* the planner the switch of releaser.Release calls: none when the service
\* ID does not parse
PlannerRun(spec) ==
  IF spec.ServiceSpec # ServiceSpecAll /\ ParseServiceID(spec.ServiceSpec).err # NoErr
  THEN "" ELSE releaseType(spec)

\* --------------------------------------------- what a planner was answered
\* the services the planner asks the platform for and gets; the planner of
\* one service without update asks nothing and takes the service as given
Candidates(spec, in) ==
  IF spec.ServiceSpec = ServiceSpecAll
  THEN IF spec.ImageSpec = ImageSpecLatest THEN in.present
       ELSE in.present \ spec.Excludes
  ELSE IF spec.ImageSpec = ImageSpecNone THEN {spec.ServiceSpec} \ spec.Excludes
       ELSE ({spec.ServiceSpec} \cap in.present) \ spec.Excludes

\* the image the release wants in place of img: the latest of its
\* repository, or the image of the spec
Wanted(spec, in, img) ==
  IF spec.ImageSpec = ImageSpecLatest THEN LatestImage(in.reg, Repository(img)).ID
  ELSE ParseImageID(spec.ImageSpec)

\* the candidates with a container, those of them that run the wanted image
\* already and those that run another image of its repository
WithContainers(spec, in) == {s \in Candidates(spec, in) : in.cont[s] # "err"}
UpToDate(spec, in) ==
  {s \in WithContainers(spec, in) :
     ParseImageID(FirstImage(in.cont[s])) =
       Wanted(spec, in, ParseImageID(FirstImage(in.cont[s])))}
Behind(spec, in) ==
  {s \in WithContainers(spec, in) :
     LET img == ParseImageID(FirstImage(in.cont[s]))
     IN /\ img # Wanted(spec, in, img)
        /\ Repository(img) = Repository(Wanted(spec, in, img))}

\* the record kept of one Release call: the planner that ran, whether it
\* planned, what the platform and the registry answered, and the indices of
\* the actions whose closure ran
NoObs == [planner |-> "", planned |-> FALSE, cand |-> {}, with |-> {}, same |-> {},
          behind |-> {}, ran |-> <<>>]
Observe(spec, in, plan) ==
  IF plan.err # NoErr \/ PlannerRun(spec) = ""
  THEN [NoObs EXCEPT !.planner = PlannerRun(spec)]
  ELSE [planner |-> PlannerRun(spec), planned |-> TRUE, cand |-> Candidates(spec, in),
        with |-> WithContainers(spec, in), same |-> UpToDate(spec, in),
        behind |-> Behind(spec, in), ran |-> <<>>]

\* ------------------------------------------------------- release context
NoPath == -1
EmptyMap == [s \in {} |-> 0]
\* flux.NewReleaseContext
NewReleaseContext == [RepoPath |-> NoPath, RepoKey |-> NoPath, PodControllers |-> EmptyMap]

\* the bytes of a pod controller definition: whose it is and the images
\* written into it, in the order they were written
Def(service, imgs) == [service |-> service, imgs |-> imgs]

\* a history event; job is the job the writing Release call works on
Event(service, msg, cause, e, id) ==
  [service |-> service, msg |-> msg, cause |-> cause, err |-> e.msg, job |-> id]

\* what an action's closure leaves behind
\* io: what the closure did to the files of the checkout and to the remote
Outcome(result, e, rc1, dirs1, events, touch, batches) ==
  [result |-> result, err |-> e, rc |-> rc1, dirs |-> dirs1, events |-> events,
   touch |-> touch, batches |-> batches, io |-> <<>>]

\* the permission bits of the definition file of a service in the repo
FileMode(service) == IF service = "default/a" THEN "0644" ELSE "0755"
\* a file of the checkout: its bytes, its mode, the times it was written
File(def, mode, writes) == [def |-> def, mode |-> mode, writes |-> writes]
\* the working copy after repo.Clone: each service has its definition file
Checkout == [s \in Services |-> File(Def(s, <<>>), FileMode(s), 0)]
\* per caller: the files of its checkout and the content of its commit
NoFiles == [work |-> EmptyMap, pushed |-> EmptyMap]
NoDef == Def("", <<>>)
FileOp(op, service, def, mode) == [op |-> op, service |-> service, def |-> def, mode |-> mode]
\* ioutil.WriteFile(name, def, mode) on an existing file: the bytes are
\* replaced, the mode of the file stays (the one passed is fi.Mode())
WriteFile(work, service, def, mode) ==
  [work EXCEPT ![service] = File(def, mode, @.writes + 1)]
RECURSIVE ApplyIO(_, _, _)
ApplyIO(fs, io, i) ==
  IF i > Len(io) THEN fs
  ELSE ApplyIO(CASE io[i].op = "checkout" -> [fs EXCEPT !.work = Checkout]
                 [] io[i].op = "write" ->
                      [fs EXCEPT !.work = WriteFile(@, io[i].service, io[i].def, io[i].mode)]
                 [] OTHER -> [fs EXCEPT !.pushed = [s \in DOMAIN fs.work |-> fs.work[s].def]],
               io, i + 1)

\* kubernetes.UpdatePodController(def, target): the definition with the
\* target image written into it
UpdatePodController(def, target) == [def EXCEPT !.imgs = Append(@, target)]
\* the loop over the regrades: each rewrite works on the result of the one
\* before
RECURSIVE UpdateAll(_, _, _)
UpdateAll(def, regrades, i) ==
  IF i > Len(regrades) THEN def
  ELSE UpdateAll(UpdatePodController(def, regrades[i].target), regrades, i + 1)

\* (a closure that keeps in the release context the bytes it read)
StoredDefRead(def, read) == read

\* rc.PodControllers[service] = def, def being the bytes written
StoredDef(def, read) == def

FileOutcomes == {"badpath", "finderr", "none", "multi", "readerr", "ok"}
UpdateOutcomes == FileOutcomes \cup {"updateerr", "writeerr"}
CommitOutcomes == {"badkey", "pusherr", "stdout", "ok"}
CloneOutcomes == {"err", "ok"}

\* the answers the environment can give to an action's closure
Outcomes(action, rc1) ==
  CASE action.type = "clone" -> CloneOutcomes
    [] action.type = "find" -> FileOutcomes
    [] action.type = "update" -> UpdateOutcomes
    [] action.type = "commit" -> CommitOutcomes
    [] action.type = "regrade" ->
         SUBSET (Range(action.services) \cap DOMAIN rc1.PodControllers)
    [] OTHER -> {"ok"}

DoPrintf(rc1, ds) == Outcome(NoLine, NoErr, rc1, ds, <<>>, {}, <<>>)

DoClone(rc1, ds, id, out) ==
  IF out = "err"
  THEN Outcome(NoLine, Err("clone the config repo", {}), rc1, ds, <<>>, {"clone"}, <<>>)
  ELSE [Outcome(Line("Clone OK.", {}), NoErr,
                [rc1 EXCEPT !.RepoPath = id, !.RepoKey = id], ds \cup {id},
                <<>>, {"clone"}, <<>>)
          EXCEPT !.io = <<FileOp("checkout", "", NoDef, "")>>]

\* (a closure for which a service without a definition file is an error)
NoFileErrFatal(service) == Err("no resource definition file found", {service})

\* len(files) <= 0: the closure returns the skip message and a nil error
NoFileErr(service) == NoErr

DoFindPodController(service, rc1, ds, out) ==
  CASE out = "badpath" \/ rc1.RepoPath \notin ds ->
         Outcome(NoLine, Err("the resource path is not valid", {}), rc1, ds, <<>>, {}, <<>>)
    [] out = "finderr" ->
         Outcome(NoLine, Err("finding resource definition file for", {service}),
                 rc1, ds, <<>>, {}, <<>>)
    [] out = "none" ->
         Outcome(Line("no resource definition file found; skipping", {service}),
                 NoFileErr(service), rc1, ds, <<>>, {}, <<>>)
    [] out = "multi" ->
         Outcome(NoLine, Err("multiple resource definition files found for", {service}),
                 rc1, ds, <<>>, {}, <<>>)
    [] out = "readerr" ->
         Outcome(NoLine, Err("read error", {}), rc1, ds, <<>>, {}, <<>>)
    [] OTHER ->
         Outcome(Line("Found pod controller OK.", {}), NoErr,
                 [rc1 EXCEPT !.PodControllers = (service :> Def(service, <<>>)) @@ @],
                 ds, <<>>, {}, <<>>)

Targets(regrades) == [i \in DOMAIN regrades |-> regrades[i].target]

DoUpdatePodController(service, regrades, rc1, ds, fs, out) ==
  CASE out = "badpath" \/ rc1.RepoPath \notin ds ->
         Outcome(NoLine, Err("the resource path is not valid", {}), rc1, ds, <<>>, {}, <<>>)
    [] out = "finderr" ->
         Outcome(NoLine, Err("finding resource definition file for", {service}),
                 rc1, ds, <<>>, {}, <<>>)
    [] out = "none" ->
         Outcome(Line("no resource definition file found; skipping", {service}),
                 NoFileErr(service), rc1, ds, <<>>, {}, <<>>)
    [] out = "multi" ->
         Outcome(NoLine, Err("multiple resource definition files found for", {service}),
                 rc1, ds, <<>>, {}, <<>>)
    [] out = "readerr" ->
         Outcome(NoLine, Err("read error", {}), rc1, ds, <<>>, {}, <<>>)
    [] out = "updateerr" ->
         Outcome(NoLine, Err("updating pod controller for", {}), rc1, ds, <<>>, {}, <<>>)
    [] out = "writeerr" ->
         Outcome(NoLine, Err("write error", {}), rc1, ds, <<>>, {"write"}, <<>>)
    [] OTHER ->
         LET fi == fs.work[service]
             def == UpdateAll(fi.def, regrades, 1)
         IN [Outcome(Line("Update pod controller OK.", {}), NoErr,
                     [rc1 EXCEPT !.PodControllers =
                        (service :> StoredDef(def, fi.def)) @@ @],
                     ds, <<>>, {"write"}, <<>>)
               EXCEPT !.io = <<FileOp("write", service, def, fi.mode)>>]

\* (a closure that drops the error of r.repo.CommitAndPush)
PushFailedIgnored == NoErr

\* the error r.repo.CommitAndPush returns when it fails
PushFailed == Err("git push failed", {})

\* r.repo.CommitAndPush answers an error, a text with a nil error, or an
\* empty text with a nil error, which the closure turns into "Pushed commit"
DoCommitAndPush(msg, rc1, ds, out) ==
  CASE rc1.RepoPath \notin ds ->
         Outcome(NoLine, Err("the repo path is not valid", {}), rc1, ds, <<>>, {}, <<>>)
    [] out = "badkey" ->
         Outcome(NoLine, Err("the repo key is not valid", {}), rc1, ds, <<>>, {}, <<>>)
    [] out = "pusherr" ->
         Outcome(NoLine, PushFailed, rc1, ds, <<>>, {"commit"}, <<>>)
    [] out = "stdout" ->
         [Outcome(Line("output of git", {}), NoErr, rc1, ds, <<>>, {"commit"}, <<>>)
           EXCEPT !.io = <<FileOp("push", "", NoDef, "")>>]
    [] OTHER ->
         [Outcome(Line("Pushed commit: ", {}), NoErr, rc1, ds, <<>>, {"commit"}, <<>>)
           EXCEPT !.io = <<FileOp("push", "", NoDef, "")>>]

\* (a batch built without looking at the release context)
BatchAll(services, rc1) == services

\* the services of the list that have a definition in the release context
Batch(services, rc1) ==
  SelectSeq(services, LAMBDA s : s \in DOMAIN rc1.PodControllers)

\* (a results map the RegradeError is never put into)
RegradeResultLocal(service, rc1, failed) ==
  IF service \notin DOMAIN rc1.PodControllers
  THEN Err("no pod controller in release context; skipping regrade", {})
  ELSE NoErr

\* results[service] after the platform has answered with the set failed
RegradeResult(service, rc1, failed) ==
  IF service \in failed THEN Err("regrade error", {})
  ELSE IF service \notin DOMAIN rc1.PodControllers
  THEN Err("no pod controller in release context; skipping regrade", {})
  ELSE NoErr

\* (a LogEvent moved in front of the lookup in the release context)
AnnouncedAll(services, rc1) == services

\* the services regrade-services writes a "Starting regrade" event for
Announced(services, rc1) == Batch(services, rc1)

\* def, ok := rc.PodControllers[service]: def, the zero value without ok
Lookup(rc1, service) ==
  IF service \in DOMAIN rc1.PodControllers THEN rc1.PodControllers[service] ELSE NoDef

\* (a closure that calls the platform once for each spec)
PlatformRegradeEach(specs) == [i \in DOMAIN specs |-> {specs[i]}]

\* r.helper.PlatformRegrade(specs): the calls made, each with its batch
PlatformRegrade(specs) == <<Range(specs)>>

DoRegradeServices(services, cause, rc1, ds, id, hlen, failed) ==
  LET specs == Batch(services, rc1)
      named == Announced(services, rc1)
      starting == [i \in DOMAIN named |-> Event(named[i], "Starting regrade", cause, NoErr, id)]
      report == [i \in DOMAIN services |->
                   LET e == RegradeResult(services[i], rc1, failed)
                   IN IF e = NoErr
                      THEN Event(services[i], "Regrade: done", cause, NoErr, id)
                      ELSE Event(services[i], "Regrade: failed: ", cause, e, id)]
      transactionErr == IF failed = {} THEN NoErr ELSE Err("RegradeError", failed)
  IN Outcome(NoLine, transactionErr, rc1, ds, starting \o report,
             {"regrade"} \cup (IF Len(services) > 0 THEN {"history"} ELSE {}),
             [k \in DOMAIN PlatformRegrade(specs) |->
                [batch |-> PlatformRegrade(specs)[k], keys |-> DOMAIN rc1.PodControllers,
                 histLen |-> hlen + Len(starting), job |-> id, failed |-> failed,
                 defs |-> [s \in PlatformRegrade(specs)[k] |-> Lookup(rc1, s)]]])

\* action.Do(rc)
Do(action, rc1, ds, fs, id, hlen, out) ==
  CASE action.type = "clone" -> DoClone(rc1, ds, id, out)
    [] action.type = "find" -> DoFindPodController(action.services[1], rc1, ds, out)
    [] action.type = "update" ->
         DoUpdatePodController(action.services[1], action.regrades, rc1, ds, fs, out)
    [] action.type = "commit" -> DoCommitAndPush(action.cause, rc1, ds, out)
    [] action.type = "regrade" ->
         DoRegradeServices(action.services, action.cause, rc1, ds, id, hlen, out)
    [] OTHER -> DoPrintf(rc1, ds)

\* rc.Clean(): the checkout is removed
Clean(rc1, ds) == ds \ {rc1.RepoPath}

\* ------------------------------------ the Releaser of release/release.go
\* Releaser.Release(serviceSpec, imageSpec, kind) plans and executes within
\* the call and returns the actions with an error; it knows no job and no
\* excluded services.
SyncSpecs ==
  [ServiceSpec : ServiceSpecs, ImageSpec : ImageSpecs,
   Kind : {ReleaseKindPlan, ReleaseKindExecute}]

releaseActionReleaseServicePlan(service, cause) ==
  Action("release", Line("Release the service", {service}), <<service>>, <<>>, cause)

\* helper.AllServices()
AllServices(in) == SeqOfSet(in.present, ServiceOrder)

\* the containers the platform reports for a service
ContainersFor(in, s) ==
  IF in.cont[s] = "err" THEN <<>> ELSE Containers(in.cont[s])

\* helper.AllReleasableImagesFor(serviceIDs): the services as the map is
\* ranged over, each with its containers
ContainerMap(in, order) ==
  LET ids == SeqOfSet(in.present, order)
  IN [i \in DOMAIN ids |-> [ID |-> ids[i], state |-> in.cont[ids[i]]]]

\* the planner's (res, err); a planner that fails returns nil actions
SyncPlan(res, e) == [res |-> IF e # NoErr THEN <<>> ELSE res, err |-> e]

\* one ReleaseService action per key of regradeMap, in range order
ReleaseServiceActions(regradeMap, order, cause) ==
  LET keys == SeqOfSet(RegradeKeys(regradeMap), order)
  IN [i \in DOMAIN keys |-> releaseActionReleaseServicePlan(keys[i], cause)]

\* Releaser.releaseAllToLatest; a failing RegistryGetRepository and a
\* failing LatestImage end the plan alike
releaseAllToLatestSync(in) ==
  LET res0 == <<releaseActionPrintf(
                  "I'm going to release all services to their latest images.", {})>>
      acc == LatestServices(ContainerMap(in, in.order1), 1, in.reg,
               [res |-> res0, regradeMap |-> EmptyRegradeMap, err |-> NoErr])
      skips == SelectSeq(acc.res, LAMBDA a :
                 a.Description.text # "service does not have images associated:")
  IN IF in.svcErr THEN SyncPlan(res0, Err("fetching all platform services", {}))
     ELSE IF in.imgErr THEN SyncPlan(res0, Err("fetching images for services", {}))
     ELSE IF acc.err # NoErr THEN SyncPlan(skips, acc.err)
     ELSE IF RegradeKeys(acc.regradeMap) = {}
     THEN SyncPlan(Append(skips, releaseActionPrintf(
                 "All services are running the latest images. Nothing to do.", {})), NoErr)
     ELSE SyncPlan(skips \o <<releaseActionClone>>
                 \o UpdateActions(acc.regradeMap, in.order1)
                 \o <<releaseActionCommitAndPushPlan("Release latest images to all services")>>
                 \o ReleaseServiceActions(acc.regradeMap, in.order2,
                                          "latest images (to all services)"), NoErr)

\* Releaser.releaseAllForImage
releaseAllForImageSync(target, in) ==
  LET res0 == <<releaseActionPrintf(
                  "I'm going to release image to all services that would use it.", {})>>
      acc == TargetServices(ContainerMap(in, in.order1), 1, target,
               [res |-> res0, regradeMap |-> EmptyRegradeMap, err |-> NoErr])
      skips == SelectSeq(acc.res, LAMBDA a :
                 a.Description.text # "service does not have images associated:")
  IN IF in.svcErr THEN SyncPlan(res0, Err("fetching all platform services", {}))
     ELSE IF in.imgErr THEN SyncPlan(res0, Err("fetching images for services", {}))
     ELSE IF RegradeKeys(acc.regradeMap) = {}
     THEN SyncPlan(Append(skips, releaseActionPrintf(
                 "All matching services are already running image. Nothing to do.", {})), NoErr)
     ELSE SyncPlan(skips \o <<releaseActionClone>>
                 \o UpdateActions(acc.regradeMap, in.order1)
                 \o <<releaseActionCommitAndPushPlan("Release to all services")>>
                 \o ReleaseServiceActions(acc.regradeMap, in.order2, "(to all services)"),
                 NoErr)

\* the container loop of Releaser.releaseOneToLatest; acc: [res, regrades, err]
RECURSIVE OneToLatestContainers(_, _, _, _)
OneToLatestContainers(containers, j, in, acc) ==
  IF j > Len(containers) \/ acc.err # NoErr THEN acc
  ELSE
    LET imageID == ParseImageID(containers[j].Image)
        latestImage == LatestImage(in.reg, Repository(imageID))
    IN IF in.imgErr THEN [acc EXCEPT !.err = Err("fetching repository for", {})]
       ELSE IF latestImage.err # NoErr
       THEN OneToLatestContainers(containers, j + 1, in,
              [acc EXCEPT !.res = Append(@, releaseActionPrintf(
                 "The service image had no images available in its repository; very strange!",
                 {}))])
       ELSE IF imageID = latestImage.ID
       THEN OneToLatestContainers(containers, j + 1, in,
              [acc EXCEPT !.res = Append(@, releaseActionPrintf(
                 "The service image is already at latest; skipping.", {}))])
       ELSE OneToLatestContainers(containers, j + 1, in,
              [acc EXCEPT !.regrades = Append(@,
                 containerRegrade(containers[j].Name, imageID, latestImage.ID))])

\* helper.PlatformContainersFor fails for a service the platform has not
PlatformContainersForFails(id, in) == in.svcErr \/ id \notin in.present

\* Releaser.releaseOneToLatest
releaseOneToLatestSync(id, in) ==
  LET res0 == <<releaseActionPrintf(
                  "I'm going to release the latest images(s) for service", {id})>>
      acc == OneToLatestContainers(ContainersFor(in, id), 1, in,
               [res |-> res0, regrades |-> <<>>, err |-> NoErr])
  IN IF PlatformContainersForFails(id, in)
     THEN SyncPlan(res0, Err("fetching images for service", {id}))
     ELSE IF acc.err # NoErr THEN SyncPlan(acc.res, acc.err)
     ELSE IF Len(acc.regrades) <= 0
     THEN SyncPlan(Append(acc.res, releaseActionPrintf(
                 "The service is already running the latest version of all its images. Nothing to do.",
                 {})), NoErr)
     ELSE SyncPlan(acc.res \o
                 <<releaseActionClone,
                   releaseActionUpdatePodControllerPlan(id, acc.regrades),
                   releaseActionCommitAndPushPlan("Release latest images to"),
                   releaseActionReleaseServicePlan(id, "latest images")>>, NoErr)

\* the container loop of Releaser.releaseOne
RECURSIVE OneContainers(_, _, _, _)
OneContainers(containers, j, target, acc) ==
  IF j > Len(containers) THEN acc
  ELSE
    LET candidate == ParseImageID(containers[j].Image)
    IN IF Repository(candidate) # Repository(target)
       THEN OneContainers(containers, j + 1, target,
              [acc EXCEPT !.res = Append(@, releaseActionPrintf(
                 "Image is different than the target. Ignoring.", {}))])
       ELSE IF candidate = target
       THEN OneContainers(containers, j + 1, target,
              [acc EXCEPT !.res = Append(@, releaseActionPrintf(
                 "Image is already released. Skipping.", {}))])
       ELSE OneContainers(containers, j + 1, target,
              [acc EXCEPT !.regrades = Append(@,
                 containerRegrade(containers[j].Name, candidate, target))])

\* Releaser.releaseOne
releaseOneSync(serviceID, target, in) ==
  LET res0 == <<releaseActionPrintf("I'm going to release image to service", {serviceID})>>
      acc == OneContainers(ContainersFor(in, serviceID), 1, target,
               [res |-> res0, regrades |-> <<>>, err |-> NoErr])
  IN IF PlatformContainersForFails(serviceID, in)
     THEN SyncPlan(res0, Err("fetching images for service", {serviceID}))
     ELSE IF Len(acc.regrades) <= 0
     THEN SyncPlan(Append(acc.res, releaseActionPrintf(
                 "Service doesn't need a regrade. Nothing to do.", {serviceID})), NoErr)
     ELSE SyncPlan(acc.res \o
                 <<releaseActionClone,
                   releaseActionUpdatePodControllerPlan(serviceID, acc.regrades),
                   releaseActionCommitAndPushPlan("Release to"),
                   releaseActionReleaseServicePlan(serviceID, "target image")>>, NoErr)

\* Releaser.releaseOneWithoutUpdate
releaseOneWithoutUpdateSync(serviceID) ==
  SyncPlan(<<releaseActionPrintf(
               "I'm going to release service using the config from the git repo, without updating it",
               {serviceID}),
             releaseActionClone,
             releaseActionFindPodControllerPlan(serviceID),
             releaseActionReleaseServicePlan(serviceID, "without update")>>, NoErr)

\* the find and release pair of each service, in the order of the list
RECURSIVE FindAndRelease(_, _)
FindAndRelease(ids, i) ==
  IF i > Len(ids) THEN <<>>
  ELSE <<releaseActionFindPodControllerPlan(ids[i]),
         releaseActionReleaseServicePlan(ids[i], "without update (all services)")>>
       \o FindAndRelease(ids, i + 1)

\* Releaser.releaseAllWithoutUpdate
releaseAllWithoutUpdateSync(in) ==
  IF in.svcErr THEN SyncPlan(<<>>, Err("fetching all platform services", {}))
  ELSE SyncPlan(<<releaseActionPrintf(
                    "I'm going to release all services using the config from the git repo, without updating it.",
                    {}),
                  releaseActionClone>>
                \o FindAndRelease(AllServices(in), 1), NoErr)

\* the switch of Releaser.Release
SyncPlanFor(spec, in) ==
  LET t == releaseType(spec)
      sid == ParseServiceID(spec.ServiceSpec)
  IN CASE t = "release_all_to_latest" -> releaseAllToLatestSync(in)
       [] t = "release_all_without_update" -> releaseAllWithoutUpdateSync(in)
       [] t = "release_all_for_image" ->
            releaseAllForImageSync(ParseImageID(spec.ImageSpec), in)
       [] t = "release_one_to_latest" -> releaseOneToLatestSync(sid.id, in)
       [] t = "release_one_without_update" -> releaseOneWithoutUpdateSync(sid.id)
       [] OTHER -> releaseOneSync(sid.id, ParseImageID(spec.ImageSpec), in)

\* the cases of the switch that return before a planner is called
SyncParseFails(spec) ==
  spec.ServiceSpec # ServiceSpecAll /\ ParseServiceID(spec.ServiceSpec).err # NoErr

\* a planner that asks the platform nothing has a single run
SyncInputsFor(spec) ==
  IF releaseType(spec) = "release_one_without_update"
  THEN {CHOOSE in \in PlanInputs : in.svcErr} ELSE PlanInputs

\* releaseActionReleaseService, the closure
DoReleaseService(service, cause, rc1, ds, out) ==
  IF service \notin DOMAIN rc1.PodControllers
  THEN Outcome(Line("no definition; ignoring", {service}), NoErr, rc1, ds, <<>>, {}, <<>>)
  ELSE LET e == IF out = "err" THEN Err("platform release error", {}) ELSE NoErr
       IN Outcome(NoLine, e, rc1, ds,
                  <<Event(service, "Starting release", cause, NoErr, 0),
                    IF e = NoErr THEN Event(service, "Release: done", cause, NoErr, 0)
                    ELSE Event(service, "Release: failed: ", cause, e, 0)>>,
                  {"release", "history"}, <<>>)

\* the results "OK" and "ok" of the clone, find and update closures
SyncResult(o, text) ==
  IF o.result \in {Line("Clone OK.", {}), Line("Found pod controller OK.", {}),
                   Line("Update pod controller OK.", {})}
  THEN [o EXCEPT !.result = Line(text, {})] ELSE o

\* the answers the environment can give to a closure of the Releaser
SyncOutcomes(action) ==
  CASE action.type = "clone" -> CloneOutcomes
    [] action.type = "find" -> FileOutcomes
    [] action.type = "update" -> UpdateOutcomes
    [] action.type = "commit" -> CommitOutcomes
    [] action.type = "release" -> {"err", "ok"}
    [] OTHER -> {"ok"}

\* action.Do(rc) of the Releaser's actions
SyncDo(action, rc1, ds, out) ==
  CASE action.type = "clone" -> SyncResult(DoClone(rc1, ds, 1, out), "OK")
    [] action.type = "find" ->
         SyncResult(DoFindPodController(action.services[1], rc1, ds, out), "ok")
    [] action.type = "update" ->
         SyncResult(DoUpdatePodController(action.services[1], action.regrades, rc1, ds,
                                          [NoFiles EXCEPT !.work = Checkout], out), "ok")
    [] action.type = "commit" -> DoCommitAndPush(action.cause, rc1, ds, out)
    [] action.type = "release" ->
         DoReleaseService(action.services[1], action.cause, rc1, ds, out)
    [] OTHER -> DoPrintf(rc1, ds)

\* ------------------------------------------------------------------ state
VARIABLES
  sem,      \* r.semaphore: the number of tokens in the channel
  pc,       \* per caller: where it stands
  job,      \* per caller: the ReleaseJob it holds in memory
  acts,     \* per caller: the planned actions (with their results)
  ai,       \* per caller: the index of the next action of execute's loop
  rc,       \* per caller: the ReleaseContext of execute
  err,      \* per caller: the error Release returns
  touched,  \* per caller: what its current Release call has touched so far
  batches,  \* per caller: the platform Regrade calls of its current Release
  queue,    \* job store: the IDs of the queued jobs, oldest first
  store,    \* job store: the persisted job records
  sent,     \* per job: the record of the latest UpdateJob call
  nfail,    \* job store: the calls that failed so far
  history,  \* the history log
  dirs,     \* the checkout directories that exist
  nput,     \* jobs enqueued so far
  ndirect,  \* Release calls of the second caller so far
  handed,   \* per job: how often it was handed to Release
  obs,      \* per caller: what its current Release call was answered and did
  sync,     \* the Releaser of release.go and the one call it serves
  srv,      \* the server: its semaphore, its calls and their goroutines
  cluster,  \* the kubernetes cluster and the Regrade call it serves
  files,    \* per caller: the files of its checkout, the content it pushed
  manifests, \* the manifests value and its latest LoadManifests call
  cfexec,   \* the latest Exec call on a ConfigFile
  sel,      \* the SelectWorkloads call of a ReleaseContext
  cm        \* the checkoutManager and the goroutines that use it

vars == <<sem, pc, job, acts, ai, rc, err, touched, batches, queue, store,
          sent, nfail, history, dirs, nput, ndirect, handed, obs, sync, srv,
          cluster, files, manifests, cfexec, sel, cm>>

\* the variables of the release engine, its callers, the server and the
\* cluster
releaseVars == <<sem, pc, job, acts, ai, rc, err, touched, batches, queue, store,
                 sent, nfail, history, dirs, nput, ndirect, handed, obs, sync,
                 srv, cluster, files>>

\* (a second caller that holds the last job of the queue)
DirectIDQueued == MaxJobs

\* the ID of the job the second caller holds: not one of the queue
DirectID == 0
JobIDs == 0..MaxJobs

NoSpec == [ServiceSpec |-> "", ImageSpec |-> "", Kind |-> "", Excludes |-> {}]
NewJob(id, spec) ==
  [ID |-> id, Spec |-> spec, Status |-> NoLine, Log |-> <<>>,
   Started |-> FALSE, Finished |-> FALSE, Success |-> FALSE]
NoJob == NewJob(-1, NoSpec)

\* (an updateJob that leaves job.Status alone)
updateJobLogOnly(j, line) == [j EXCEPT !.Log = Append(@, line)]

\* the closure updateJob of Release, up to the UpdateJob call
updateJob(j, line) == [j EXCEPT !.Status = line, !.Log = Append(@, line)]

\* the store after UpdateJob was called with recs, oks telling which of the
\* calls the store accepted
RECURSIVE UpdateJobs(_, _, _, _)
UpdateJobs(st, recs, oks, i) ==
  IF i > Len(recs) THEN st
  ELSE UpdateJobs(IF oks[i] THEN [st EXCEPT ![recs[i].ID] = recs[i]] ELSE st,
                  recs, oks, i + 1)

Fails(recs, oks) == Cardinality({i \in DOMAIN recs : ~oks[i]})

\* UpdateJob is called with each of recs in turn; the store may fail
Persist(recs) ==
  /\ sent' = IF recs = <<>> THEN sent
             ELSE [sent EXCEPT ![recs[Len(recs)].ID] = recs[Len(recs)]]
  /\ \E oks \in [1..2 -> BOOLEAN] :
       /\ \A i \in 1..2 : i > Len(recs) => oks[i]
       /\ nfail + Fails(recs, oks) <= MaxStoreFailures
       /\ nfail' = nfail + Fails(recs, oks)
       /\ store' = UpdateJobs(store, recs, oks, 1)

\* ------------------------------------------------- server, server/server.go
\* the capacity of s.maxPlatform
MaxPlatform == 8

\* the services of the platform, as the server's helper lists them
ListedIDs == 1..MaxListed
\* the sets of services whose containers the platform fails to give
DownSets == {{}, {1, 2}}
\* the service specs ListImages is called with: the first service, and 0 for
\* a string that is not "namespace/service"
ListImagesSpecs == {0, 1}
ListCalls == {"ListServices", "ListImages"}
\* the goroutines of the fan-out: one per call and service
Tasks == ListCalls \X ListedIDs

\* flux.ParseServiceID on the specs given to ListImages
ParseListed(spec) ==
  IF spec \in ListedIDs THEN [id |-> spec, err |-> NoErr]
  ELSE [id |-> 0, err |-> Err("fetching service ID(s)", {})]

NoCount == [s \in ListedIDs |-> 0]
\* a call of ListServices or ListImages: ids are the serviceIDs, down the
\* services whose query fails during it, got the i of the collecting loop, res
\* how often each service was appended to res, logged how often its error
\* was logged, ret what the call returned
NoCall ==
  [pc |-> "idle", ids |-> {}, down |-> {}, got |-> 0, res |-> NoCount,
   logged |-> NoCount, ret |-> [res |-> NoCount, err |-> NoErr]]

\* the server after New: the semaphore is empty, no goroutine runs
NoServer ==
  [maxPlatform |-> 0, task |-> [t \in Tasks |-> "none"],
   call |-> [c \in ListCalls |-> NoCall]]

\* (a semaphore that never blocks the send)
HasRoomAlways(tokens) == TRUE

\* s.maxPlatform <- struct{}{} goes through while the channel has room
HasRoom(tokens) == tokens < MaxPlatform

\* (a collecting loop that stops one message early)
ExpectedShort(ids) == Cardinality(ids) - 1

\* the collecting loop runs len(serviceIDs) times
Expected(ids) == Cardinality(ids)

\* the go statements of the fan-out loop: one goroutine per service ID
Spawn(task, c, ids) ==
  [t \in Tasks |-> IF t[1] = c THEN (IF t[2] \in ids THEN "wait" ELSE "none")
                   ELSE task[t]]

\* the goroutines of an earlier call c have all exited
Exited(c) == \A t \in Tasks : t[1] = c => srv.task[t] \in {"none", "done"}

\* ------------------------- Cluster.Regrade, platform/kubernetes/kubernetes.go
\* the new definitions a RegradeSpec may carry: two versions of the bytes
NewDefinitions == {"v1", "v2"}
NoDefinition == ""
\* platform.RegradeSpec
RegradeSpecs == [service : Services, NewDefinition : NewDefinitions]
\* the batches Regrade is called with
RegradeBatches == UNION {[1..n -> RegradeSpecs] : n \in 0..MaxBatch}
\* how the regrade of one spec ends: "" for success, else the message the
\* error is wrapped with
RegradeOutcomes ==
  {"", "reading definition", "getting pod controller", "creating regrade", "releasing"}

\* platform.RegradeError: per service its error message, "" for no entry
NoRegradeError == [s \in Services |-> ""]

\* the goroutines that call Regrade
RegradeCallers == {1, 2}
\* a caller of Regrade: idle, blocked sending its closure on c.actionc
\* ("send"), blocked receiving from its errc ("wait"), or back with what it
\* received ("done")
NoRegradeCall == [pc |-> "idle", specs |-> <<>>, ret |-> NoRegradeError]

\* the cluster after NewCluster: applied is the definition each pod
\* controller runs, inProgress the keys of c.status; pc is where the
\* goroutine of c.loop stands, and the rest is the closure it runs: the
\* call it belongs to, its specs, the index of the loop over them,
\* regradeErr, the indices the loop has come to, those whose plan.exec
\* succeeded, and what it sent on errc. call is the callers; ncalls counts
\* their calls.
NoCluster ==
  [pc |-> "idle", applied |-> [s \in Services |-> NoDefinition], inProgress |-> {},
   specs |-> <<>>, i |-> 0, regradeErr |-> NoRegradeError, done |-> {},
   returned |-> FALSE, ret |-> NoRegradeError,
   caller |-> 1, call |-> [c \in RegradeCallers |-> NoRegradeCall], ncalls |-> 0,
   tried |-> {}]

\* the batches a caller calls Regrade with: the first any batch, the others
\* a batch of one spec
CallerBatches(c) ==
  IF c = 1 THEN RegradeBatches ELSE {b \in RegradeBatches : Len(b) = 1}

\* (a loop that starts a goroutine for each closure it receives)
LoopReadyAlways(at) == TRUE

\* c.loop receives from c.actionc only when the closure before has returned
LoopReady(at) == at = "idle"

\* (a closure that always sends nil on errc)
ErrcValueNil(regradeErr) == NoRegradeError

\* what the closure sends on errc: regradeErr, or nil when it is empty
ErrcValue(regradeErr) == regradeErr

\* (a loop that gives up the batch at the first failing spec)
AfterFailureStop(specs, i) == Len(specs) + 1

\* continue: the loop goes on to the next spec after a failure
AfterFailure(specs, i) == i + 1

\* ------------------------------- manifests, cluster/kubernetes (manifests.go)
\* the resources of the files, by their IDs
ManifestIDs == {"bar:foo/fooinstance", "<cluster>:namespace/mynamespace"}
\* the orders a Go map over the manifests can be ranged in
ManifestOrders ==
  {<<"bar:foo/fooinstance", "<cluster>:namespace/mynamespace">>,
   <<"<cluster>:namespace/mynamespace", "bar:foo/fooinstance">>}
\* what one load has for a resource: it is not in the files, or
\* EffectiveNamespace gives a namespace, an error with "not found" in it, or
\* another error
ScopeAnswers == {"absent", "found", "not found", "error"}
\* the namespace resource always has its scope unless the namespacer fails
LoadInputs ==
  {in \in [ManifestIDs -> ScopeAnswers] :
     in["<cluster>:namespace/mynamespace"] \in {"found", "error"}}
NoLoad ==
  [in |-> [r \in ManifestIDs |-> "absent"], looked |-> {}, log |-> <<>>,
   result |-> {}, err |-> FALSE]
\* NewManifests: no warning has been logged; load is the latest
\* LoadManifests call (what it was answered, the resources the loop came to,
\* what it logged and returned), log everything logged so far, last whether
\* the scope of each resource was found or not at the latest load that asked
\* for it, nloads the calls so far
NoManifests ==
  [resourceWarnings |-> {}, load |-> NoLoad, log |-> <<>>,
   last |-> [r \in ManifestIDs |-> "absent"], nloads |-> 0]

\* (a loop that never forgets a warning it has logged)
AfterFoundKeep(warnings, r) == warnings

\* delete(m.resourceWarnings, resIDStr)
AfterFound(warnings, r) == warnings \ {r}

\* the loop of setEffectiveNamespaces over the manifests in range order;
\* acc: [resourceWarnings, looked, log, result, err]
RECURSIVE setEffectiveNamespaces(_, _, _, _)
setEffectiveNamespaces(in, order, k, acc) ==
  IF k > Len(order) \/ acc.err THEN acc
  ELSE
    LET r == order[k]
        seen == [acc EXCEPT !.looked = @ \cup {r}]
    IN CASE in[r] = "absent" -> setEffectiveNamespaces(in, order, k + 1, acc)
         [] in[r] = "not found" ->
              setEffectiveNamespaces(in, order, k + 1,
                IF r \in acc.resourceWarnings THEN seen
                ELSE [seen EXCEPT !.log = Append(@, [level |-> "warn", res |-> r]),
                                  !.resourceWarnings = @ \cup {r}])
         [] in[r] = "error" ->
              [seen EXCEPT !.err = TRUE, !.result = {}]
         [] OTHER ->
              setEffectiveNamespaces(in, order, k + 1,
                IF r \in acc.resourceWarnings
                THEN [seen EXCEPT !.log = Append(@, [level |-> "info", res |-> r]),
                                  !.resourceWarnings = AfterFound(@, r),
                                  !.result = @ \cup {r}]
                ELSE [seen EXCEPT !.result = @ \cup {r}])

\* ----------------------------------------------- ConfigFile (.flux.yaml)
\* what a command does: it exits with 0, it exits with another status, or
\* it is still running when the command timeout ends
CommandAnswers == {"ok", "exit 1", "deadline exceeded"}
\* the configuration files: some generators and some updaters, each updater
\* with a container image command and an annotation command
ConfigFile(generators, updaters) ==
  [Generators |-> [k \in 1..generators |-> [Command |-> <<"g", k>>]],
   Updaters |-> [k \in 1..updaters |->
                    [ContainerImage |-> [Command |-> <<"uci", k>>],
                     Annotation |-> [Command |-> <<"ua", k>>]]]]
ConfigFiles ==
  {ConfigFile(generators, updaters) :
     generators \in 0..MaxCommands, updaters \in 0..MaxCommands}
\* the answers the commands of a list give when they are run
AnswersFor(commands) == [DOMAIN commands -> CommandAnswers]
\* execCommand: the error of cmd.Run or of the command's context
execCommand(answer) == IF answer = "ok" THEN "" ELSE answer
\* no Exec function has been called
NoExec ==
  [fn |-> "", cf |-> ConfigFile(0, 0), ran |-> <<>>, result |-> <<>>, err |-> ""]

\* (a loop that goes on after a command error)
StopOnErrorNever(commandErr) == FALSE

\* "Stop executing on the first command error": if err != nil { break }
StopOnError(commandErr) == commandErr # ""

\* the loop of ExecGenerators and of execCommandsWithCombinedOutput over
\* the commands from the k-th on; acc: [ran, result], ran the commands
\* handed to execCommand, result the results appended
RECURSIVE execCommands(_, _, _, _)
execCommands(commands, answers, k, acc) ==
  IF k > Len(commands) THEN acc
  ELSE
    LET commandErr == execCommand(answers[k])
        r == [Output |-> commands[k], Error |-> commandErr]
        next == [ran |-> Append(acc.ran, commands[k]),
                 result |-> Append(acc.result, r)]
    IN IF StopOnError(commandErr) THEN next
       ELSE execCommands(commands, answers, k + 1, next)

\* for _, u := range cf.Updaters { commands = append(commands, ...Command) }
UpdaterCommands(cf, kind) ==
  [k \in DOMAIN cf.Updaters |-> cf.Updaters[k][kind].Command]
GeneratorCommands(cf) ==
  [k \in DOMAIN cf.Generators |-> cf.Generators[k].Command]

\* ------------------------------------- ReleaseContext.SelectWorkloads
\* the workloads there are, in the repo or in the cluster
WorkloadIDs == 1..MaxWorkloads
\* update.WorkloadResult
WorkloadResult(status, error) == [Status |-> status, Error |-> error]
\* no entry in the results
NoResult == WorkloadResult("(none)", "(none)")
\* what the prefilters say of a workload: nothing, or the result of the
\* first filter that rejects it
PrefilterResults ==
  {WorkloadResult("", ""), WorkloadResult("ignored", "excluded")}
\* what the postfilters say of a workload
PostfilterResults ==
  {WorkloadResult("", ""), WorkloadResult("success", ""),
   WorkloadResult("skipped", "image up to date")}
\* a call: the workloads defined in the repo (or the error of
\* GetAllResources), what the filters say of each workload, the answer of
\* cluster.SomeWorkloads (the workloads it returns, or its error)
SelectCalls ==
  {in \in [defined : SUBSET WorkloadIDs, definedErr : {""},
           pre : [WorkloadIDs -> PrefilterResults],
           running : SUBSET WorkloadIDs, clusterErr : {""},
           post : [WorkloadIDs -> PostfilterResults]] :
     /\ \A s \in WorkloadIDs \ in.defined : in.pre[s] = WorkloadResult("", "")
     /\ \A s \in WorkloadIDs \ (in.defined \cap in.running) :
          in.post[s] = WorkloadResult("", "")}
  \cup
  {[defined |-> {1}, definedErr |-> e[1],
    pre |-> [s \in WorkloadIDs |-> WorkloadResult("", "")],
    running |-> {1}, clusterErr |-> e[2],
    post |-> [s \in WorkloadIDs |-> WorkloadResult("", "")]] :
     e \in {<<"cannot read", "">>, <<"", "cluster unreachable">>}}
NoSelectCall ==
  [defined |-> {}, definedErr |-> "",
   pre |-> [s \in WorkloadIDs |-> WorkloadResult("", "")],
   running |-> {}, clusterErr |-> "",
   post |-> [s \in WorkloadIDs |-> WorkloadResult("", "")]]
\* what SelectWorkloads has done: the IDs it asked the cluster about, the
\* results map, the updates returned, the error returned
NoSelected ==
  [asked |-> {}, results |-> [s \in WorkloadIDs |-> NoResult], updates |-> {},
   err |-> ""]
NoSelect == [pc |-> "idle", in |-> NoSelectCall, out |-> NoSelected]

\* (a selection that asks the cluster about every defined workload)
AskClusterAll(res) == TRUE

\* if res.Error == "": the workload goes on to the cluster
AskCluster(res) == res.Error = ""

\* the first loop: the prefilters over all defined workloads
Prefiltered(in) ==
  [asked |-> {s \in in.defined : AskCluster(in.pre[s])},
   results |-> [s \in WorkloadIDs |->
                  IF s \notin in.defined THEN NoResult
                  ELSE IF AskCluster(in.pre[s])
                       THEN WorkloadResult("skipped", "not accessible in cluster")
                       ELSE in.pre[s]],
   updates |-> {}, err |-> ""]

\* SelectWorkloads
SelectWorkloads(in) ==
  IF in.definedErr # "" THEN [NoSelected EXCEPT !.err = in.definedErr]
  ELSE
    LET pre == Prefiltered(in)
    IN IF in.clusterErr # "" THEN [pre EXCEPT !.err = in.clusterErr]
       ELSE IF \E s \in in.running : s \notin in.defined
       THEN [pre EXCEPT !.err = "requested and running, but not defined"]
       ELSE [pre EXCEPT
               !.results = [s \in WorkloadIDs |->
                              IF s \in in.running THEN in.post[s] ELSE @[s]],
               !.updates = {s \in in.running :
                              in.post[s].Status \in {"success", ""}}]

\* ------------------------------- checkoutManager (checkoutmanager.go)
\* the goroutines that use one checkoutManager
Goroutines == {1, 2}
\* a resource map: cm.resourcesByID is nil, or it is the map that was loaded
\* from the files after ver modifications
NilMap == [loaded |-> FALSE, ver |-> 0]
LoadedMap(ver) == [loaded |-> TRUE, ver |-> ver]
\* a goroutine: the method it is in (op) and where, the map it holds in its
\* local resourcesByID, the number of modifications that had returned when
\* its getResourcesByID began (since), what getResourcesByID returned to it
\* (got) and what its method returned (ret)
NoGoroutine ==
  [pc |-> "idle", op |-> "", local |-> NilMap, since |-> 0, got |-> NilMap,
   ret |-> ""]
\* NewCheckoutManager: resourcesByID is nil; ver counts the modifications
\* written to the files of the checkout, done those whose method has returned
\* without error
NewCheckoutManager ==
  [ver |-> 0, resourcesByID |-> NilMap, done |-> 0,
   g |-> [g \in Goroutines |-> NoGoroutine]]

\* what a Release call of the Releaser returns
Ret(res, e) == [res |-> res, err |-> e]
NoSyncSpec == [ServiceSpec |-> "", ImageSpec |-> "", Kind |-> ""]

\* the Releaser after New, no call made yet: sem is its semaphore, err the
\* named result err of Release, planErr what the planner returned
NoSync ==
  [pc |-> "idle", spec |-> NoSyncSpec, sem |-> 0, actions |-> <<>>, i |-> 0,
   rc |-> NewReleaseContext, err |-> NoErr, planErr |-> NoErr, ret |-> Ret(<<>>, NoErr),
   returned |-> FALSE, ran |-> <<>>, dirs |-> {}, events |-> <<>>]

InitCallers ==
  /\ sem = 0
  /\ pc = [p \in Callers |-> IF p = "w" THEN "tick" ELSE "idle"]
  /\ job = [p \in Callers |-> NoJob]
  /\ acts = [p \in Callers |-> <<>>]
  /\ ai = [p \in Callers |-> 0]
  /\ rc = [p \in Callers |-> NewReleaseContext]
  /\ err = [p \in Callers |-> NoErr]
  /\ touched = [p \in Callers |-> {}]
  /\ batches = [p \in Callers |-> <<>>]
  /\ sent = [i \in JobIDs |-> NoJob]
  /\ nfail = 0
  /\ history = <<>>
  /\ dirs = {}
  /\ ndirect = 0
  /\ handed = [i \in JobIDs |-> 0]
  /\ obs = [p \in Callers |-> NoObs]
  /\ sync = NoSync
  /\ srv = NoServer
  /\ cluster = NoCluster
  /\ files = [p \in Callers |-> NoFiles]
  /\ manifests = NoManifests
  /\ cfexec = NoExec
  /\ sel = NoSelect
  /\ cm = NewCheckoutManager

\* the system after construction: nothing queued
Init ==
  /\ InitCallers
  /\ queue = <<>>
  /\ store = [i \in JobIDs |-> NoJob]
  /\ nput = 0

\* one job, of any spec, has been put and waits for the worker
InitEngine ==
  /\ InitCallers
  /\ queue = <<1>>
  /\ \E spec \in JobSpecs : store = [i \in JobIDs |-> IF i = 1 THEN NewJob(1, spec) ELSE NoJob]
  /\ nput = 1

\* ---------------------------------------------------------------- job store
\* PutJob(spec): the job gets the next ID and joins the queue
PutJob(spec) ==
  /\ nput < MaxJobs
  /\ nput' = nput + 1
  /\ store' = [store EXCEPT ![nput + 1] = NewJob(nput + 1, spec)]
  /\ queue' = Append(queue, nput + 1)
  /\ UNCHANGED <<sem, pc, job, acts, ai, rc, err, touched, batches, sent, nfail,
                 history, dirs, ndirect, handed, obs, sync, srv,
                 cluster, files, manifests, cfexec, sel, cm>>

\* NextJob(): the oldest queued job; it leaves the queue
NextJob(q) == Head(q)

\* ------------------------------------------------------------------ worker
\* Work, one tick, NextJob has a job: mark it started and persist that
WorkNextJob ==
  /\ pc["w"] = "tick"
  /\ queue # <<>>
  /\ LET j == [store[NextJob(queue)] EXCEPT !.Started = TRUE,
                                         !.Status = Line("Executing...", {})]
     IN /\ job' = [job EXCEPT !["w"] = j]
        /\ Persist(<<j>>)
  /\ queue' = Tail(queue)
  /\ pc' = [pc EXCEPT !["w"] = "call"]
  /\ UNCHANGED <<sem, acts, ai, rc, err, touched, batches, history, dirs,
                 nput, ndirect, handed, obs, sync, srv, cluster,
                 files, manifests, cfexec, sel, cm>>

\* Work, one tick, NextJob has no job: the loop goes on to the next tick
WorkNoJob ==
  /\ pc["w"] = "tick"
  /\ queue = <<>>
  /\ UNCHANGED vars

\* (a Work that returns when NextJob fails)
AfterFetchErrorExit(at) == "exit"

\* where the loop of Work goes after it has logged a NextJob error
AfterFetchError(at) == at

\* Work, one tick, NextJob fails with another error than "no job": the
\* error is logged and the loop goes on to the next tick
WorkNextJobFails ==
  /\ pc["w"] = "tick"
  /\ nfail < MaxStoreFailures
  /\ nfail' = nfail + 1
  /\ pc' = [pc EXCEPT !["w"] = AfterFetchError("tick")]
  /\ UNCHANGED <<sem, job, acts, ai, rc, err, touched, batches, queue, store,
                 sent, history, dirs, nput, ndirect, handed, obs, sync, srv,
                 cluster, files, manifests, cfexec, sel, cm>>

\* (a Work that reports every job as a success)
FinalRecordOptimist(j, e) ==
  [j EXCEPT !.Finished = TRUE, !.Success = TRUE, !.Status = Line("Complete.", {})]

\* the record Work builds once Release has returned e
FinalRecord(j, e) ==
  IF e # NoErr
  THEN [j EXCEPT !.Finished = TRUE, !.Success = FALSE, !.Status = FailedLine(e),
                 !.Log = Append(@, FailedLine(e))]
  ELSE [j EXCEPT !.Finished = TRUE, !.Success = TRUE, !.Status = Line("Complete.", {})]

\* (a Work that forgets the final UpdateJob)
FinalUpdatesNone(j) == <<>>

\* the UpdateJob calls Work makes for the final record
FinalUpdates(j) == <<j>>

\* (a Work that hands a failed job to Release again)
AfterFinishRetry(e) == IF e # NoErr THEN "call" ELSE "tick"

\* where the loop of Work goes after the final record
AfterFinish(e) == "tick"

\* Work, after Release has returned: the final record is persisted
WorkFinish ==
  /\ pc["w"] = "after"
  /\ LET j == FinalRecord(job["w"], err["w"])
     IN /\ job' = [job EXCEPT !["w"] = j]
        /\ Persist(FinalUpdates(j))
  /\ pc' = [pc EXCEPT !["w"] = AfterFinish(err["w"])]
  /\ UNCHANGED <<sem, acts, ai, rc, err, touched, batches, queue, history,
                 dirs, nput, ndirect, handed, obs, sync, srv,
                 cluster, files, manifests, cfexec, sel, cm>>

\* ----------------------------------------------------------- second caller
\* another goroutine calls Release on the same releaser with its own job
DirectCall(spec) ==
  /\ pc["d"] = "idle"
  /\ ndirect < MaxDirect
  /\ job' = [job EXCEPT !["d"] = NewJob(DirectID, spec)]
  /\ pc' = [pc EXCEPT !["d"] = "call"]
  /\ UNCHANGED <<sem, acts, ai, rc, err, touched, batches, queue, store,
                 sent, nfail, history, dirs, nput, ndirect, handed,
                 obs, sync, srv, cluster, files, manifests,
                 cfexec, sel, cm>>

DirectReturn ==
  /\ pc["d"] = "after"
  /\ pc' = [pc EXCEPT !["d"] = "idle"]
  /\ ndirect' = ndirect + 1
  /\ UNCHANGED <<sem, job, acts, ai, rc, err, touched, batches, queue,
                 store, sent, nfail, history, dirs, nput, handed,
                 obs, sync, srv, cluster, files, manifests,
                 cfexec, sel, cm>>

\* ------------------------------------------------------------------ engine
\* (a select whose send never finds the channel full)
TryAcquireUnbounded(tokens) == TRUE

\* the select on r.semaphore: the send succeeds while the channel has room
TryAcquire(tokens) == tokens < maxSimultaneousReleases

\* (a select without a default case: Release waits for the semaphore)
SelectReadyBlocking(tokens) == TryAcquire(tokens)

\* the select of Release has a default case: it never waits
SelectReady(tokens) == TRUE

\* Release, up to the first updateJob: try to take the semaphore
ReleaseStart(p) ==
  /\ pc[p] = "call"
  /\ SelectReady(sem)
  /\ batches' = [batches EXCEPT ![p] = <<>>]
  /\ acts' = [acts EXCEPT ![p] = <<>>]
  /\ ai' = [ai EXCEPT ![p] = 0]
  /\ rc' = [rc EXCEPT ![p] = NewReleaseContext]
  /\ handed' = [handed EXCEPT ![job[p].ID] = @ + 1]
  /\ obs' = [obs EXCEPT ![p] = NoObs]
  /\ files' = [files EXCEPT ![p] = NoFiles]
  /\ IF TryAcquire(sem)
     THEN LET j == updateJob(job[p], Line("Calculating release actions.", {}))
          IN /\ sem' = sem + 1
             /\ err' = [err EXCEPT ![p] = NoErr]
             /\ job' = [job EXCEPT ![p] = j]
             /\ Persist(<<j>>)
             /\ touched' = [touched EXCEPT ![p] = {"log", "update"}]
             /\ pc' = [pc EXCEPT ![p] = "plan"]
     ELSE /\ err' = [err EXCEPT ![p] = ErrInProgress]
          /\ touched' = [touched EXCEPT ![p] = {}]
          /\ pc' = [pc EXCEPT ![p] = "after"]
          /\ UNCHANGED <<sem, job, sent, store, nfail>>
  /\ UNCHANGED <<queue, history, dirs, nput, ndirect, sync, srv, cluster,
                 manifests, cfexec, sel, cm>>

\* (a planner that returns without its deferred execute)
AfterPlanReturn(e) == "ret"

\* the planner's deferred function: execute is called when err == nil
AfterPlan(e) == IF e = NoErr THEN "exec" ELSE "ret"

\* what a planner reads while it plans
PlanReads(spec, in) ==
  LET t == releaseType(spec)
      excluded == spec.ServiceSpec \in spec.Excludes
  IN IF t \in {"release_all_to_latest", "release_all_without_update",
               "release_all_for_image"}
     THEN {"platform"} \cup
          (IF t = "release_all_to_latest" /\ ~in.svcErr THEN {"registry"} ELSE {})
     ELSE IF ParseServiceID(spec.ServiceSpec).err # NoErr \/ excluded
             \/ t = "release_one_without_update"
     THEN {}
     ELSE {"platform"} \cup
          (IF t = "release_one_to_latest" /\ ~in.svcErr /\ spec.ServiceSpec \in in.present
              /\ in.cont[spec.ServiceSpec] # "err"
           THEN {"registry"} ELSE {})

\* the answers a planner can be given: one that asks the platform nothing
\* (an unparsable or excluded service, a plan without update for one service)
\* has a single run, the others one per answer
PlanInputsFor(spec) ==
  LET quiet == CHOOSE in \in PlanInputs : in.svcErr
  IN IF PlanReads(spec, quiet) = {} THEN {quiet} ELSE PlanInputs

\* Release, the switch and the planner it chooses
ReleasePlan(p) ==
  /\ pc[p] = "plan"
  /\ \E in \in PlanInputsFor(job[p].Spec) :
       LET plan == PlanFor(job[p].Spec, in)
       IN /\ touched' = [touched EXCEPT ![p] = @ \cup PlanReads(job[p].Spec, in)]
          /\ acts' = [acts EXCEPT ![p] = plan.res]
          /\ obs' = [obs EXCEPT ![p] = Observe(job[p].Spec, in, plan)]
          /\ err' = [err EXCEPT ![p] = plan.err]
          /\ pc' = [pc EXCEPT ![p] = AfterPlan(plan.err)]
          /\ IF plan.err = NoErr
             THEN ai' = [ai EXCEPT ![p] = 1]
             ELSE UNCHANGED ai
  /\ UNCHANGED <<sem, job, rc, batches, queue, store, sent, nfail, history, dirs,
                 nput, ndirect, handed, sync, srv, cluster,
                 files, manifests, cfexec, sel, cm>>

\* (an execute that forgets to look at the kind)
RunsClosureAlways(kind) == TRUE

\* execute: the closure of an action is run only for this kind
RunsClosure(kind) == kind = ReleaseKindExecute

\* (an execute that does not hand the line after the closure to UpdateJob)
ProgressUpdatesFirst(j1, j2) == <<j1>>

\* the UpdateJob calls of one round of execute: after the description, and
\* after the error or the non-empty result
ProgressUpdates(j1, j2) == IF j2 = j1 THEN <<j1>> ELSE <<j1, j2>>

\* (an execute that goes on to the next action after an error)
StopsOnNever(e) == FALSE

\* execute: an action's error ends the loop
StopsOn(e) == e # NoErr

\* execute, one round of the loop over the actions
ExecuteAction(p) ==
  /\ pc[p] = "exec"
  /\ ai[p] <= Len(acts[p])
  /\ LET action == acts[p][ai[p]]
         j1 == updateJob(job[p], action.Description)
     IN IF RunsClosure(job[p].Spec.Kind)
        THEN \E out \in Outcomes(action, rc[p]) :
               LET o == Do(action, rc[p], dirs, files[p], job[p].ID, Len(history), out)
                   j2 == IF o.err # NoErr THEN updateJob(j1, ErrLine(o.err))
                         ELSE IF o.result # NoLine THEN updateJob(j1, o.result)
                         ELSE j1
               IN /\ job' = [job EXCEPT ![p] = j2]
                  /\ Persist(ProgressUpdates(j1, j2))
                  /\ rc' = [rc EXCEPT ![p] = o.rc]
                  /\ dirs' = o.dirs
                  /\ files' = [files EXCEPT ![p] = ApplyIO(@, o.io, 1)]
                  /\ history' = history \o o.events
                  /\ touched' = [touched EXCEPT ![p] = @ \cup o.touch \cup {"log", "update"}]
                  /\ batches' = [batches EXCEPT ![p] = @ \o o.batches]
                  /\ acts' = [acts EXCEPT ![p][ai[p]].Result =
                                IF o.err # NoErr THEN FailedLine(o.err) ELSE o.result]
                  /\ err' = [err EXCEPT ![p] = o.err]
                  /\ obs' = [obs EXCEPT ![p].ran = Append(@, ai[p])]
                  /\ IF StopsOn(o.err)
                     THEN /\ pc' = [pc EXCEPT ![p] = "clean"]
                          /\ UNCHANGED ai
                     ELSE /\ ai' = [ai EXCEPT ![p] = @ + 1]
                          /\ UNCHANGED pc
        ELSE /\ job' = [job EXCEPT ![p] = j1]
             /\ Persist(<<j1>>)
             /\ touched' = [touched EXCEPT ![p] = @ \cup {"log", "update"}]
             /\ ai' = [ai EXCEPT ![p] = @ + 1]
             /\ UNCHANGED <<pc, rc, dirs, files, history, batches, acts, err, obs>>
  /\ UNCHANGED <<sem, queue, nput, ndirect, handed, sync, srv, cluster, manifests,
                 cfexec, sel, cm>>

\* (an execute that cleans at the end of the loop instead of deferring)
ExecuteCleanAtEnd(rc1, ds, e) == IF e = NoErr THEN Clean(rc1, ds) ELSE ds

\* what execute's deferred call leaves of the directories, e being the
\* error execute returns
ExecuteDeferred(rc1, ds, e) == Clean(rc1, ds)

\* execute returns: the deferred rc.Clean() runs
ExecuteReturn(p) ==
  /\ \/ pc[p] = "clean"
     \/ pc[p] = "exec" /\ ai[p] > Len(acts[p])
  /\ dirs' = ExecuteDeferred(rc[p], dirs, err[p])
  /\ files' = [files EXCEPT ![p].work = IF rc[p].RepoPath \in dirs' THEN @ ELSE EmptyMap]
  /\ pc' = [pc EXCEPT ![p] = "ret"]
  /\ UNCHANGED <<sem, job, acts, ai, rc, err, touched, batches, queue,
                 store, sent, nfail, history, nput, ndirect, handed,
                 obs, sync, srv, cluster, manifests, cfexec, sel,
                 cm>>

\* (a Release that gives the token back only when it returns no error)
ReleaseDeferredOnSuccess(tokens, e) == IF e = NoErr THEN tokens - 1 ELSE tokens

\* defer func() { <-r.semaphore }(): run on every return after the select
ReleaseDeferred(tokens, e) == tokens - 1

\* Release returns: the deferred receive takes the token back
ReleaseReturn(p) ==
  /\ pc[p] = "ret"
  /\ sem' = ReleaseDeferred(sem, err[p])
  /\ pc' = [pc EXCEPT ![p] = "after"]
  /\ UNCHANGED <<job, acts, ai, rc, err, touched, batches, queue, store, sent,
                 nfail, history, dirs, nput, ndirect, handed,
                 obs, sync, srv, cluster, files, manifests,
                 cfexec, sel, cm>>

\* --------------------------------------------- Releaser.Release, release.go
\* a caller (the server's Release handler) calls Release
SyncCall(spec) ==
  /\ sync.pc = "idle"
  /\ sync' = [NoSync EXCEPT !.pc = "call", !.spec = spec, !.sem = sync.sem]
  /\ UNCHANGED <<sem, pc, job, acts, ai, rc, err, touched, batches, queue, store,
                 sent, nfail, history, dirs, nput, ndirect, handed, obs,
                 srv, cluster, files, manifests, cfexec, sel, cm>>

\* the select on the semaphore
SyncStart ==
  /\ sync.pc = "call"
  /\ sync' = IF TryAcquire(sync.sem)
             THEN [sync EXCEPT !.sem = @ + 1, !.pc = "plan"]
             ELSE [sync EXCEPT !.ret = Ret(<<>>, ErrInProgress), !.returned = TRUE,
                               !.pc = "idle"]
  /\ UNCHANGED <<sem, pc, job, acts, ai, rc, err, touched, batches, queue, store,
                 sent, nfail, history, dirs, nput, ndirect, handed, obs,
                 srv, cluster, files, manifests, cfexec, sel, cm>>

\* the switch: a service ID that does not parse is returned as an error; the
\* planner's actions and error are assigned, and the statements after the
\* switch run execute for kind Execute and return the actions with nil
SyncPlanStep ==
  /\ sync.pc = "plan"
  /\ IF SyncParseFails(sync.spec)
     THEN sync' = [sync EXCEPT !.ret = Ret(<<>>, ParseServiceID(sync.spec.ServiceSpec).err),
                               !.pc = "ret"]
     ELSE \E in \in SyncInputsFor(sync.spec) :
            LET plan == SyncPlanFor(sync.spec, in)
            IN sync' = IF sync.spec.Kind = ReleaseKindExecute
                       THEN [sync EXCEPT !.actions = plan.res, !.err = plan.err,
                                         !.planErr = plan.err, !.i = 1,
                                         !.rc = NewReleaseContext, !.pc = "exec"]
                       ELSE [sync EXCEPT !.actions = plan.res, !.err = plan.err,
                                         !.planErr = plan.err,
                                         !.ret = Ret(plan.res, NoErr), !.pc = "ret"]
  /\ UNCHANGED <<sem, pc, job, acts, ai, rc, err, touched, batches, queue, store,
                 sent, nfail, history, dirs, nput, ndirect, handed, obs,
                 srv, cluster, files, manifests, cfexec, sel, cm>>

\* Releaser.execute, one round of the loop; an error ends execute (the
\* deferred rc.Clean() runs) and Release returns it with the actions
SyncExecuteAction ==
  /\ sync.pc = "exec"
  /\ sync.i <= Len(sync.actions)
  /\ \E out \in SyncOutcomes(sync.actions[sync.i]) :
       LET o == SyncDo(sync.actions[sync.i], sync.rc, sync.dirs, out)
           done == [sync EXCEPT !.rc = o.rc, !.events = @ \o o.events,
                                !.ran = Append(@, sync.i), !.err = o.err]
       IN sync' =
            IF o.err # NoErr
            THEN LET failed == [done.actions EXCEPT ![sync.i].Result = FailedLine(o.err)]
                 IN [done EXCEPT !.actions = failed, !.dirs = Clean(o.rc, o.dirs),
                                 !.ret = Ret(failed, o.err), !.pc = "ret"]
            ELSE [done EXCEPT !.actions[sync.i].Result = o.result, !.dirs = o.dirs,
                              !.i = @ + 1]
  /\ UNCHANGED <<sem, pc, job, acts, ai, rc, err, touched, batches, queue, store,
                 sent, nfail, history, dirs, nput, ndirect, handed, obs,
                 srv, cluster, files, manifests, cfexec, sel, cm>>

\* Releaser.execute returns nil after the last action
SyncExecuteReturn ==
  /\ sync.pc = "exec"
  /\ sync.i > Len(sync.actions)
  /\ sync' = [sync EXCEPT !.dirs = Clean(sync.rc, sync.dirs), !.err = NoErr,
                          !.ret = Ret(sync.actions, NoErr), !.pc = "ret"]
  /\ UNCHANGED <<sem, pc, job, acts, ai, rc, err, touched, batches, queue, store,
                 sent, nfail, history, dirs, nput, ndirect, handed, obs,
                 srv, cluster, files, manifests, cfexec, sel, cm>>

\* Release returns: the deferred receive takes the token back
SyncReturn ==
  /\ sync.pc = "ret"
  /\ sync' = [sync EXCEPT !.sem = @ - 1, !.returned = TRUE, !.pc = "idle"]
  /\ UNCHANGED <<sem, pc, job, acts, ai, rc, err, touched, batches, queue, store,
                 sent, nfail, history, dirs, nput, ndirect, handed, obs,
                 srv, cluster, files, manifests, cfexec, sel, cm>>

Release(p) ==
  \/ ReleaseStart(p)
  \/ ReleasePlan(p)
  \/ ExecuteAction(p)
  \/ ExecuteReturn(p)
  \/ ReleaseReturn(p)

\* the whole system: the job store, the worker and a second caller
Next ==
  \/ \E spec \in QueueSpecs : PutJob(spec)
  \/ WorkNextJob
  \/ WorkNoJob
  \/ WorkNextJobFails
  \/ WorkFinish
  \/ \E spec \in DirectSpecs : DirectCall(spec)
  \/ DirectReturn
  \/ \E p \in Callers : Release(p)

Spec == Init /\ [][Next]_vars

\* the worker's goroutine keeps running: the ticker goes on firing and
\* every call the worker and the engine make returns
FairSpec ==
  /\ Spec
  /\ WF_vars(WorkNextJob)
  /\ WF_vars(Release("w"))
  /\ WF_vars(WorkFinish)

\* the worker with one queued job of any spec
NextEngine ==
  \/ WorkNextJob
  \/ WorkNoJob
  \/ WorkNextJobFails
  \/ WorkFinish
  \/ Release("w")

SpecEngine == InitEngine /\ [][NextEngine]_vars

\* the worker alone with its releaser and two jobs in the queue: the first
\* an executed release of all services to the latest images or one of an
\* unparsable service, the second one of the specs of the full system
InitWorker ==
  /\ InitCallers
  /\ queue = <<1, 2>>
  /\ \E first \in {spec \in JobSpecs :
                     /\ spec.Kind = ReleaseKindExecute /\ spec.Excludes = {}
                     /\ spec.ImageSpec = ImageSpecLatest
                     /\ spec.ServiceSpec \in {ServiceSpecAll, "nonsense"}},
        second \in QueueSpecs :
       store = [i \in JobIDs |-> CASE i = 1 -> NewJob(1, first)
                                   [] i = 2 -> NewJob(2, second)
                                   [] OTHER -> NoJob]
  /\ nput = 2

SpecWorker == InitWorker /\ [][NextEngine]_vars

\* ------------------------------------------- server.ListServices/ListImages
\* ListServices is called (namespace ""): the helper lists the services or
\* fails; the fan-out loop starts one goroutine per service
ListServicesCall ==
  /\ srv.call["ListServices"].pc \in {"idle", "ret"}
  /\ Exited("ListServices")
  /\ \E listed \in BOOLEAN, down \in DownSets :
       srv' =
         IF ~listed
         THEN [srv EXCEPT !.call["ListServices"] =
                 [NoCall EXCEPT !.pc = "ret",
                    !.ret = [res |-> NoCount,
                             err |-> Err("fetching services for namespace", {})]]]
         ELSE [srv EXCEPT !.call["ListServices"] =
                            [NoCall EXCEPT !.pc = "collect", !.ids = ListedIDs,
                                           !.down = down],
                          !.task = Spawn(srv.task, "ListServices", ListedIDs)]
  /\ UNCHANGED <<sem, pc, job, acts, ai, rc, err, touched, batches, queue, store,
                 sent, nfail, history, dirs, nput, ndirect, handed, obs, sync,
                 cluster, files, manifests, cfexec, sel, cm>>

\* ListImages is called with the spec of one service
ListImagesCall(spec) ==
  /\ srv.call["ListImages"].pc \in {"idle", "ret"}
  /\ Exited("ListImages")
  /\ \E down \in DownSets :
       srv' =
         IF ParseListed(spec).err # NoErr
         THEN [srv EXCEPT !.call["ListImages"] =
                 [NoCall EXCEPT !.pc = "ret",
                    !.ret = [res |-> NoCount, err |-> ParseListed(spec).err]]]
         ELSE [srv EXCEPT !.call["ListImages"] =
                            [NoCall EXCEPT !.pc = "collect",
                                           !.ids = {ParseListed(spec).id},
                                           !.down = down],
                          !.task = Spawn(srv.task, "ListImages",
                                         {ParseListed(spec).id})]
  /\ UNCHANGED <<sem, pc, job, acts, ai, rc, err, touched, batches, queue, store,
                 sent, nfail, history, dirs, nput, ndirect, handed, obs, sync,
                 cluster, files, manifests, cfexec, sel, cm>>

\* a goroutine of the fan-out takes a slot of the semaphore and starts its
\* query (containersFor, and for ListServices helper.PlatformService)
TaskAcquire(t) ==
  /\ srv.task[t] = "wait"
  /\ HasRoom(srv.maxPlatform)
  /\ srv' = [srv EXCEPT !.task[t] = "in", !.maxPlatform = @ + 1]
  /\ UNCHANGED <<sem, pc, job, acts, ai, rc, err, touched, batches, queue, store,
                 sent, nfail, history, dirs, nput, ndirect, handed, obs, sync,
                 cluster, files, manifests, cfexec, sel, cm>>

\* (a goroutine that returns without giving its slot back)
SlotAfterSendKept(tokens) == tokens

\* defer func() { <-s.maxPlatform }(): the goroutine gives its slot back
SlotAfterSend(tokens) == tokens - 1

\* the query has returned and the goroutine sends its one message, on errc
\* or on statusc; the collecting loop of its call receives it (the error is
\* logged, the status appended to res); the goroutine returns and its
\* deferred function gives the slot back
TaskSend(t) ==
  /\ srv.task[t] = "in"
  /\ srv.call[t[1]].pc = "collect"
  /\ srv.call[t[1]].got < Expected(srv.call[t[1]].ids)
  /\ srv' = [srv EXCEPT !.task[t] = "done", !.maxPlatform = SlotAfterSend(@),
                        !.call[t[1]].got = @ + 1,
                        !.call[t[1]].res[t[2]] =
                           IF t[2] \in srv.call[t[1]].down THEN @ ELSE @ + 1,
                        !.call[t[1]].logged[t[2]] =
                           IF t[2] \in srv.call[t[1]].down THEN @ + 1 ELSE @]
  /\ UNCHANGED <<sem, pc, job, acts, ai, rc, err, touched, batches, queue, store,
                 sent, nfail, history, dirs, nput, ndirect, handed, obs, sync,
                 cluster, files, manifests, cfexec, sel, cm>>

\* the collecting loop has run len(serviceIDs) times: return res, nil
ListReturn(c) ==
  /\ srv.call[c].pc = "collect"
  /\ srv.call[c].got >= Expected(srv.call[c].ids)
  /\ srv' = [srv EXCEPT !.call[c].pc = "ret",
                        !.call[c].ret = [res |-> srv.call[c].res, err |-> NoErr]]
  /\ UNCHANGED <<sem, pc, job, acts, ai, rc, err, touched, batches, queue, store,
                 sent, nfail, history, dirs, nput, ndirect, handed, obs, sync,
                 cluster, files, manifests, cfexec, sel, cm>>

NextServer ==
  \/ ListServicesCall
  \/ \E spec \in ListImagesSpecs : ListImagesCall(spec)
  \/ \E t \in Tasks : TaskAcquire(t)
  \/ \E t \in Tasks : TaskSend(t)
  \/ \E c \in ListCalls : ListReturn(c)

SpecServer == Init /\ [][NextServer]_vars

\* the goroutines of one call are interchangeable: of those of a call that
\* are at the same place, the one of the first service is taken to move
FirstAt(t, at) ==
  /\ srv.task[t] = at
  /\ \A u \in Tasks : (u[1] = t[1] /\ srv.task[u] = at) => t[2] <= u[2]

TaskAcquireFirst(t) == FirstAt(t, "wait") /\ TaskAcquire(t)

TaskSendFirst(t) == FirstAt(t, "in") /\ TaskSend(t)

NextServerFirst ==
  \/ ListServicesCall
  \/ \E spec \in ListImagesSpecs : ListImagesCall(spec)
  \/ \E t \in Tasks : TaskAcquireFirst(t)
  \/ \E t \in Tasks : TaskSendFirst(t)
  \/ \E c \in ListCalls : ListReturn(c)

\* the goroutines keep running: a goroutine blocked on s.maxPlatform gets a
\* slot when slots come free again and again (the senders blocked on a
\* channel are served in turn), the platform and registry calls return,
\* and the collecting loops go on
FairSpecServer ==
  /\ Init /\ [][NextServerFirst]_vars
  /\ \A c \in ListCalls :
       /\ SF_vars(\E t \in Tasks : t[1] = c /\ TaskAcquireFirst(t))
       /\ WF_vars(\E t \in Tasks : t[1] = c /\ TaskSendFirst(t))
       /\ WF_vars(ListReturn(c))

\* ------------------------------------------------------- Cluster.Regrade
\* a caller calls Regrade: it blocks sending the closure on c.actionc
ClusterRegradeCall(c, specs) ==
  /\ cluster.call[c].pc \in {"idle", "done"}
  /\ cluster.ncalls < MaxCalls
  /\ cluster' = [cluster EXCEPT !.ncalls = @ + 1,
                                !.call[c] = [pc |-> "send", specs |-> specs,
                                             ret |-> NoRegradeError]]
  /\ UNCHANGED <<sem, pc, job, acts, ai, rc, err, touched, batches, queue, store,
                 sent, nfail, history, dirs, nput, ndirect, handed, obs, sync, srv,
                 files, manifests, cfexec, sel, cm>>

\* c.loop receives the closure of one of the blocked callers and calls it;
\* that caller goes on to receive from its errc
ClusterLoop ==
  /\ LoopReady(cluster.pc)
  /\ \E c \in RegradeCallers :
       /\ cluster.call[c].pc = "send"
       /\ cluster' = [cluster EXCEPT !.pc = "run", !.caller = c,
                                     !.specs = cluster.call[c].specs, !.i = 1,
                                     !.regradeErr = NoRegradeError, !.done = {},
                                     !.tried = {},
                                     !.returned = FALSE, !.ret = NoRegradeError,
                                     !.call[c].pc = "wait"]
  /\ UNCHANGED <<sem, pc, job, acts, ai, rc, err, touched, batches, queue, store,
                 sent, nfail, history, dirs, nput, ndirect, handed, obs, sync, srv,
                 files, manifests, cfexec, sel, cm>>

\* one round of the loop over the specs: the definition is read, the pod
\* controller found, the regrade planned, noted in c.status and executed;
\* an error at any of these is put into regradeErr and the loop continues
ClusterRegradeSpec ==
  /\ cluster.pc = "run"
  /\ cluster.i <= Len(cluster.specs)
  /\ \E out \in RegradeOutcomes :
       LET spec == cluster.specs[cluster.i]
       IN cluster' =
            IF out = ""
            THEN [cluster EXCEPT !.applied[spec.service] = spec.NewDefinition,
                                 !.inProgress = @ \cup {spec.service},
                                 !.done = @ \cup {cluster.i},
                                 !.tried = @ \cup {cluster.i},
                                 !.i = @ + 1]
            ELSE [cluster EXCEPT !.regradeErr[spec.service] = out,
                                 !.inProgress =
                                    IF out = "releasing" THEN @ \cup {spec.service}
                                    ELSE @,
                                 !.tried = @ \cup {cluster.i},
                                 !.i = AfterFailure(cluster.specs, cluster.i)]
  /\ UNCHANGED <<sem, pc, job, acts, ai, rc, err, touched, batches, queue, store,
                 sent, nfail, history, dirs, nput, ndirect, handed, obs, sync, srv,
                 files, manifests, cfexec, sel, cm>>

\* the loop is over: regradeErr, or nil when it is empty, is sent on errc;
\* the deferred endRegrade calls run, the closure returns to c.loop, and
\* the caller returns from Regrade with what it received
ClusterRegradeReturn ==
  /\ cluster.pc = "run"
  /\ cluster.i > Len(cluster.specs)
  /\ cluster.call[cluster.caller].pc = "wait"
  /\ cluster' = [cluster EXCEPT !.pc = "idle", !.inProgress = {},
                                !.returned = TRUE,
                                !.ret = ErrcValue(cluster.regradeErr),
                                !.call[cluster.caller].pc = "done",
                                !.call[cluster.caller].specs = <<>>,
                                !.call[cluster.caller].ret =
                                   ErrcValue(cluster.regradeErr)]
  /\ UNCHANGED <<sem, pc, job, acts, ai, rc, err, touched, batches, queue, store,
                 sent, nfail, history, dirs, nput, ndirect, handed, obs, sync, srv,
                 files, manifests, cfexec, sel, cm>>

NextCluster ==
  \/ \E c \in RegradeCallers : \E specs \in CallerBatches(c) : ClusterRegradeCall(c, specs)
  \/ ClusterLoop
  \/ ClusterRegradeSpec
  \/ ClusterRegradeReturn

SpecCluster == Init /\ [][NextCluster]_vars

\* ------------------------------------------------ manifests.LoadManifests
\* LoadManifests is called: kresource.Load gives the manifests of the files
\* and setEffectiveNamespaces goes through them
LoadManifests(in, order) ==
  /\ manifests.nloads < MaxLoads
  /\ LET acc == setEffectiveNamespaces(in, order, 1,
                   [resourceWarnings |-> manifests.resourceWarnings, looked |-> {},
                    log |-> <<>>, result |-> {}, err |-> FALSE])
     IN manifests' =
          [resourceWarnings |-> acc.resourceWarnings,
           load |-> [in |-> in, looked |-> acc.looked, log |-> acc.log,
                     result |-> acc.result, err |-> acc.err],
           log |-> manifests.log \o acc.log,
           last |-> [r \in ManifestIDs |->
                       IF r \in acc.looked /\ in[r] \in {"found", "not found"}
                       THEN in[r] ELSE manifests.last[r]],
           nloads |-> manifests.nloads + 1]
  /\ UNCHANGED <<releaseVars, cfexec, sel, cm>>

NextManifests == \E in \in LoadInputs, order \in ManifestOrders : LoadManifests(in, order)

SpecManifests == Init /\ [][NextManifests]_vars

\* ------------------------------------------------------ ConfigFile.Exec*
\* ExecGenerators runs the generators
ExecGenerators(cf, answers) ==
  /\ LET commands == GeneratorCommands(cf)
         acc == execCommands(commands, answers, 1, [ran |-> <<>>, result |-> <<>>])
     IN cfexec' = [fn |-> "ExecGenerators", cf |-> cf,
                   ran |-> acc.ran, result |-> acc.result, err |-> ""]
  /\ UNCHANGED <<releaseVars, manifests, sel, cm>>

\* ExecContainerImageUpdaters and ExecAnnotationUpdaters: when the
\* environment of the manifest update cannot be made the call returns the
\* error, otherwise it runs the commands of its kind
ExecUpdaters(fn, kind, cf, envErr, answers) ==
  /\ LET commands == UpdaterCommands(cf, kind)
         acc == execCommands(commands, answers, 1, [ran |-> <<>>, result |-> <<>>])
     IN cfexec' =
          IF envErr # ""
          THEN [fn |-> fn, cf |-> cf, ran |-> <<>>, result |-> <<>>,
                err |-> envErr]
          ELSE [fn |-> fn, cf |-> cf, ran |-> acc.ran,
                result |-> acc.result, err |-> ""]
  /\ UNCHANGED <<releaseVars, manifests, sel, cm>>

ExecContainerImageUpdaters(cf, envErr, answers) ==
  ExecUpdaters("ExecContainerImageUpdaters", "ContainerImage", cf, envErr, answers)

ExecAnnotationUpdaters(cf, envErr, answers) ==
  ExecUpdaters("ExecAnnotationUpdaters", "Annotation", cf, envErr, answers)

NextConfigFile ==
  \E cf \in ConfigFiles :
    \/ \E answers \in AnswersFor(cf.Generators) : ExecGenerators(cf, answers)
    \/ \E answers \in AnswersFor(cf.Updaters), envErr \in {"", "no temp file"} :
         \/ ExecContainerImageUpdaters(cf, envErr, answers)
         \/ ExecAnnotationUpdaters(cf, envErr, answers)

SpecConfigFile == Init /\ [][NextConfigFile]_vars

\* ------------------------------------------ ReleaseContext.SelectWorkloads
\* SelectWorkloads is called with a fresh results map
SelectCall(in) ==
  /\ sel.pc = "idle"
  /\ sel' = [sel EXCEPT !.pc = "call", !.in = in]
  /\ UNCHANGED <<releaseVars, manifests, cfexec, cm>>

\* SelectWorkloads returns
SelectReturn ==
  /\ sel.pc = "call"
  /\ sel' = [sel EXCEPT !.pc = "done", !.out = SelectWorkloads(sel.in)]
  /\ UNCHANGED <<releaseVars, manifests, cfexec, cm>>

NextSelect ==
  \/ \E in \in SelectCalls : SelectCall(in)
  \/ SelectReturn

SpecSelect == Init /\ [][NextSelect]_vars

\* ---------------------------------------------------------- checkoutManager
\* a goroutine calls GetAllResourcesByID ("get") or SetWorkloadContainerImage
\* or UpdateWorkloadPolicies ("modify"); each begins with getResourcesByID
CmCall(g, op) ==
  /\ cm.g[g].pc = "idle"
  /\ cm' = [cm EXCEPT !.g[g] = [NoGoroutine EXCEPT !.pc = "check", !.op = op,
                                                   !.since = cm.done]]
  /\ UNCHANGED <<releaseVars, manifests, cfexec, sel>>

\* getResourcesByID: under the read lock, is cm.resourcesByID nil?
CmCheck(g) ==
  /\ cm.g[g].pc = "check"
  /\ cm' = [cm EXCEPT !.g[g].pc = IF cm.resourcesByID.loaded THEN "hit" ELSE "load"]
  /\ UNCHANGED <<releaseVars, manifests, cfexec, sel>>

\* where a method goes once getResourcesByID has returned a map: "get"
\* returns it, "modify" looks the resource up in it
AfterGet(op) == IF op = "get" THEN "idle" ELSE "write"

\* getResourcesByID: the read lock is released, then cm.resourcesByID is
\* read again and returned
CmHit(g) ==
  /\ cm.g[g].pc = "hit"
  /\ cm' = [cm EXCEPT !.g[g].pc = AfterGet(cm.g[g].op),
                      !.g[g].local = cm.resourcesByID,
                      !.g[g].got = cm.resourcesByID,
                      !.g[g].ret = IF cm.g[g].op = "get" THEN "map" ELSE ""]
  /\ UNCHANGED <<releaseVars, manifests, cfexec, sel>>

\* getResourcesByID: without any lock the manifests are loaded and the
\* generators are run; an error is returned
CmLoad(g) ==
  /\ cm.g[g].pc = "load"
  /\ \E ok \in BOOLEAN :
       cm' = IF ok
             THEN [cm EXCEPT !.g[g].pc = "store", !.g[g].local = LoadedMap(cm.ver)]
             ELSE [cm EXCEPT !.g[g].pc = "idle", !.g[g].ret = "error"]
  /\ UNCHANGED <<releaseVars, manifests, cfexec, sel>>

\* getResourcesByID: under the write lock the loaded map becomes
\* cm.resourcesByID, and it is returned
CmStore(g) ==
  /\ cm.g[g].pc = "store"
  /\ cm' = [cm EXCEPT !.resourcesByID = cm.g[g].local,
                      !.g[g].pc = AfterGet(cm.g[g].op),
                      !.g[g].got = cm.g[g].local,
                      !.g[g].ret = IF cm.g[g].op = "get" THEN "map" ELSE ""]
  /\ UNCHANGED <<releaseVars, manifests, cfexec, sel>>

\* the modification: the resource is not in the map, or reading, updating
\* or writing fails, and the error is returned; or the file is written
CmWrite(g) ==
  /\ cm.g[g].pc = "write"
  /\ \E ok \in BOOLEAN :
       cm' = IF ok /\ cm.g[g].local.loaded /\ cm.ver < MaxMods
             THEN [cm EXCEPT !.ver = @ + 1, !.g[g].pc = "reset",
                             !.g[g].local = LoadedMap(cm.ver + 1)]
             ELSE [cm EXCEPT !.g[g].pc = "idle", !.g[g].ret = "error"]
  /\ UNCHANGED <<releaseVars, manifests, cfexec, sel>>

\* resetResources, under the write lock, and the method returns nil
CmReset(g) ==
  /\ cm.g[g].pc = "reset"
  /\ cm' = [cm EXCEPT !.resourcesByID = NilMap,
                      !.done = IF cm.g[g].local.ver > @ THEN cm.g[g].local.ver ELSE @,
                      !.g[g].pc = "idle", !.g[g].ret = "ok"]
  /\ UNCHANGED <<releaseVars, manifests, cfexec, sel>>

NextCheckout ==
  \E g \in Goroutines :
    \/ \E op \in {"get", "modify"} : CmCall(g, op)
    \/ CmCheck(g)
    \/ CmHit(g)
    \/ CmLoad(g)
    \/ CmStore(g)
    \/ CmWrite(g)
    \/ CmReset(g)

SpecCheckout == Init /\ [][NextCheckout]_vars

\* the Releaser of release.go serving one call after the other
NextSync ==
  \/ \E spec \in SyncSpecs : SyncCall(spec)
  \/ SyncStart
  \/ SyncPlanStep
  \/ SyncExecuteAction
  \/ SyncExecuteReturn
  \/ SyncReturn

SpecSync == Init /\ [][NextSync]_vars

\* ================================================================= claims
\* a caller that has put its token into the semaphore and not taken it back
Past(p) == pc[p] \in {"plan", "exec", "clean", "ret"}

\* the step of caller p in which its Release call starts
StartsRelease(p) == pc[p] = "call" /\ pc'[p] # "call"

\* C1: at most one Release call is past the semaphore at any instant, and a
\* Release that starts while another caller is past it returns the "already
\* in progress" error in that very step, leaving the job, the job store,
\* the history log, the checkouts and the platform untouched.
C1_SingleRelease ==
  /\ [](Cardinality({p \in Callers : Past(p)}) <= maxSimultaneousReleases)
  /\ [][\A p \in Callers :
          (StartsRelease(p) /\ \E q \in Callers \ {p} : Past(q)) =>
            /\ pc'[p] = "after"
            /\ err'[p] = ErrInProgress
            /\ touched'[p] = {}
            /\ batches'[p] = <<>>
            /\ job'[p] = job[p]
            /\ <<store, sent, history, dirs>>' = <<store, sent, history, dirs>>]_vars

\* a call was rejected while the other caller was planning or executing
C1_Witness ==
  \E p \in Callers : \E q \in Callers \ {p} :
    /\ pc[p] = "after" /\ err[p] = ErrInProgress /\ touched[p] = {}
    /\ pc[q] \in {"plan", "exec"}

\* C2: a Release of kind Plan clones nothing, pushes nothing, writes no
\* manifest file, asks the platform for no regrade and logs no history
\* event: it reads the platform and the registry and writes the job log.
C2_PlanIsPure ==
  job["w"].Spec.Kind = ReleaseKindPlan =>
    /\ touched["w"] \subseteq {"log", "update", "platform", "registry"}
    /\ batches["w"] = <<>>
    /\ history = <<>>
    /\ dirs = {}
    /\ rc["w"] = NewReleaseContext

\* a plan with a clone and a regrade was walked through to the end as a Plan
C2_Witness ==
  /\ job["w"].Spec.Kind = ReleaseKindPlan
  /\ pc["w"] = "after"
  /\ \E i \in DOMAIN acts["w"] : acts["w"][i].type = "clone"
  /\ \E i \in DOMAIN acts["w"] : acts["w"][i].type = "regrade"
  /\ Len(job["w"].Log) > Len(acts["w"])

\* C3: whenever Release has returned, the checkout directory cloned for
\* its job is gone, on the success path and on every failure path.
C3_CheckoutRemoved ==
  \A p \in Callers : pc[p] = "after" => job[p].ID \notin dirs

\* Release has returned an action's error after a successful clone
C3_Witness ==
  /\ pc["w"] = "after"
  /\ rc["w"].RepoPath = job["w"].ID
  /\ err["w"] # NoErr
  /\ dirs = {}

\* the jobs the worker has started and not finished
InFlight == {id \in 1..MaxJobs : sent[id].Started /\ ~sent[id].Finished}

\* C4: jobs get their IDs in enqueue order; when the worker marks job b
\* "Executing...", every job enqueued before b has been started and its
\* final record (Finished set) has been handed to UpdateJob.
C4_Fifo ==
  \A a, b \in 1..MaxJobs :
    (a < b /\ sent[b].Started) => (sent[a].Started /\ sent[a].Finished)

\* two jobs were enqueued and the second one has been started
C4_Witness == nput >= 2 /\ sent[1].Finished /\ sent[2].Started /\ ~sent[2].Finished

\* C5: no job is handed to Release twice, at most one job is in flight,
\* and the worker is at its tick (about to call NextJob) only when no job
\* is in flight.
C5_OneJobAtATime ==
  /\ \A id \in 1..MaxJobs : handed[id] <= 1
  /\ Cardinality(InFlight) <= 1
  /\ pc["w"] = "tick" => InFlight = {}

\* two jobs went through Release, the first of them failed
C5_Witness ==
  /\ handed[1] = 1 /\ handed[2] = 1
  /\ sent[1].Finished /\ ~sent[1].Success
  /\ sent[2].Finished

\* C6: once the worker is done with a job, the last record it handed to
\* UpdateJob has Finished set, Success equal to (Release returned nil) and
\* the status "Complete." or "Failed: <error>" accordingly; the store holds
\* that record unless an UpdateJob failed.
C6_FinalRecord ==
  (pc["w"] = "tick" /\ handed[1] > 0) =>
    /\ sent[1].Finished
    /\ sent[1].Success = (err["w"] = NoErr)
    /\ sent[1].Status = IF err["w"] = NoErr THEN Line("Complete.", {})
                        ELSE FailedLine(err["w"])
    /\ nfail = 0 => store[1] = sent[1]

\* a job has failed and its final record is in the store
C6_Witness ==
  /\ pc["w"] = "tick" /\ handed[1] > 0
  /\ err["w"] # NoErr
  /\ store[1].Finished /\ ~store[1].Success /\ store[1].Status.pre = "Failed: "

\* the history events of job id that report a failed regrade
FailedEvents(id) ==
  {i \in DOMAIN history : history[i].job = id /\ history[i].msg = "Regrade: failed: "}

\* C7: whenever regrade-services has recorded a failure for a service, the
\* job ends with Success false and a "Failed: ..." status.
C7_FailureFailsJob ==
  (sent[1].Finished /\ FailedEvents(1) # {}) =>
    (~sent[1].Success /\ sent[1].Status.pre = "Failed: ")

\* the executed regrade-services action of the worker's job, if any
RegradeActions == {i \in DOMAIN acts["w"] : acts["w"][i].type = "regrade"}
Executed == batches["w"] # <<>>
Named == UNION {Range(acts["w"][i].services) : i \in RegradeActions}
Starts(s, from, to) ==
  {i \in from..to : history[i].service = s /\ history[i].msg = "Starting regrade"}
Terminals(s, from, to) ==
  {i \in from..to : history[i].service = s
                    /\ history[i].msg \in {"Regrade: done", "Regrade: failed: "}}

\* C8 as claimed: every service named in an executed regrade-services
\* action has exactly one Starting event before the platform call and
\* exactly one terminal event after it.
C8_AsClaimed ==
  Executed =>
    \A s \in Named :
      /\ Cardinality(Starts(s, 1, batches["w"][1].histLen)) = 1
      /\ Cardinality(Terminals(s, batches["w"][1].histLen + 1, Len(history))) = 1

\* C8: every service of the submitted batch has exactly one Starting event
\* before the platform call and exactly one terminal event after it; a
\* named service that has no pod controller in the release context has no
\* Starting event, and exactly one terminal event, a failure, after the
\* call; there are no other regrade events.
C8_BatchEvents ==
  Executed =>
    LET at == batches["w"][1].histLen
        batch == batches["w"][1].batch
    IN /\ \A s \in batch :
            /\ Cardinality(Starts(s, 1, at)) = 1
            /\ Cardinality(Terminals(s, at + 1, Len(history))) = 1
            /\ Starts(s, at + 1, Len(history)) = {}
            /\ Terminals(s, 1, at) = {}
       /\ \A s \in Named \ batch :
            /\ Starts(s, 1, Len(history)) = {}
            /\ Terminals(s, 1, at) = {}
            /\ Cardinality(Terminals(s, at + 1, Len(history))) = 1
            /\ \A i \in Terminals(s, at + 1, Len(history)) :
                 history[i].msg = "Regrade: failed: "
       /\ \A i \in DOMAIN history : history[i].service \in Named

\* a regrade of two services ran, one in the batch and one without a pod
\* controller
C8_Witness ==
  /\ Executed
  /\ batches["w"][1].batch # {}
  /\ Named \ batches["w"][1].batch # {}
  /\ Len(history) = Cardinality(Named) + Cardinality(batches["w"][1].batch)

\* C9: when regrade-services calls the platform, the services of the batch
\* are exactly the keys of ReleaseContext.PodControllers.
C9_BatchIsContext ==
  \A i \in DOMAIN batches["w"] : batches["w"][i].batch = batches["w"][i].keys

\* a batch was submitted that leaves out a named service
C9_Witness ==
  /\ Executed
  /\ batches["w"][1].batch # {}
  /\ batches["w"][1].batch # Named
  /\ batches["w"][1].keys = DOMAIN rc["w"].PodControllers

\* C10: no excluded service appears in a find-pod-controller,
\* update-pod-controller or regrade-services action of the plan.
C10_ExcludesRespected ==
  \A i \in DOMAIN acts["w"] :
    acts["w"][i].type \in {"find", "update", "regrade"} =>
      Range(acts["w"][i].services) \cap job["w"].Spec.Excludes = {}

\* the informational actions of the worker's plan, those of them that skip a
\* container, and the plan's actions of a given type
Informational == {i \in DOMAIN acts["w"] : acts["w"][i].type = "printf"}
SkipLines ==
  {i \in Informational :
     acts["w"][i].Description.text \in
       {"Service image is already the latest one; skipping.",
        "Service image matches the target image exactly. Skipping."}}
OfType(t) == {i \in DOMAIN acts["w"] : acts["w"][i].type = t}

\* a Latest or specific-image plan was computed and every container of
\* every candidate runs the wanted image already
NothingBehind ==
  /\ obs["w"].planned
  /\ job["w"].Spec.ImageSpec # ImageSpecNone
  /\ obs["w"].with = obs["w"].same

\* C11 as claimed: when every container of every candidate runs the target
\* already, the plan holds exactly one informational action and the
\* platform is not called for a regrade.
C11_AsClaimed ==
  NothingBehind => (Cardinality(Informational) = 1 /\ batches["w"] = <<>>)

\* C11: when every container of every candidate runs the target already,
\* the plan holds informational actions only, at least two of them (the
\* opening line, one skip line per such container, the closing line); no
\* checkout is made, no file written, nothing pushed, the platform is not
\* called for a regrade, no history event is written, and Release returns
\* nil.
C11_NoOpPlan ==
  NothingBehind =>
    /\ Informational = DOMAIN acts["w"]
    /\ Cardinality(SkipLines) = Cardinality(obs["w"].same)
    /\ Len(acts["w"]) >= 2 + Cardinality(obs["w"].same)
    /\ batches["w"] = <<>>
    /\ touched["w"] \subseteq {"log", "update", "platform", "registry"}
    /\ history = <<>> /\ dirs = {}
    /\ pc["w"] = "after" => err["w"] = NoErr

\* an Execute of all services to latest has returned, both services being
\* up to date
C11_Witness ==
  /\ NothingBehind
  /\ job["w"].Spec.Kind = ReleaseKindExecute
  /\ obs["w"].same = Services
  /\ obs["w"].ran = <<1, 2, 3, 4>>
  /\ pc["w"] = "after" /\ err["w"] = NoErr

\* the services the plan's actions of type t are for, with repetitions
ServicesOf(t) == UNION {Range(acts["w"][i].services) : i \in OfType(t)}
NoRepeats(q) == Cardinality(Range(q)) = Len(q)

\* a Latest or specific-image plan was computed and some container of a
\* candidate runs another image of the wanted image's repository
SomethingBehind ==
  /\ obs["w"].planned
  /\ job["w"].Spec.ImageSpec # ImageSpecNone
  /\ obs["w"].behind # {}

\* C12: when a Latest or specific-image plan finds a container to regrade,
\* the plan is: the informational lines, then one clone, then one
\* update-pod-controller per workload with a regrade and no other, then one
\* commit-and-push, then one regrade-services that names exactly those
\* workloads, each once.
C12_PlanOrder ==
  SomethingBehind =>
    LET k == Cardinality(Informational)
        n == Len(acts["w"])
        u == Cardinality(obs["w"].behind)
    IN /\ Informational = 1..k
       /\ n = k + u + 3
       /\ OfType("clone") = {k + 1}
       /\ OfType("update") = (k + 2)..(k + u + 1)
       /\ ServicesOf("update") = obs["w"].behind
       /\ \A i \in OfType("update") :
            /\ Len(acts["w"][i].services) = 1
            /\ acts["w"][i].regrades # <<>>
       /\ OfType("commit") = {n - 1}
       /\ OfType("regrade") = {n}
       /\ Range(acts["w"][n].services) = obs["w"].behind
       /\ NoRepeats(acts["w"][n].services)
       /\ OfType("find") = {}

\* two workloads are behind; the updates are planned in one order and the
\* regrade names them in the other
C12_Witness ==
  /\ SomethingBehind
  /\ obs["w"].behind = Services
  /\ \E i \in OfType("update") :
       /\ i + 1 \in OfType("update")
       /\ acts["w"][i].services = <<"default/b">>
  /\ \E i \in OfType("regrade") : acts["w"][i].services = ServiceOrder

\* the actions of the worker's plan whose closure has returned an error
Failing == {i \in DOMAIN acts["w"] : acts["w"][i].Result.pre = "Failed: "}
Last(q) == q[Len(q)]

\* C13: with kind Execute the closures that ran are those of actions
\* 1..m, in that order; when the closure of action i returns an error, i is
\* the last action run, its Result is "Failed: <error>", the error was
\* given to the update callback (it is the last line of the log handed to
\* UpdateJob), and Release returns that error; without an error every
\* action of the plan is run.
C13_PrefixRuns ==
  job["w"].Spec.Kind = ReleaseKindExecute =>
    /\ \A i \in DOMAIN obs["w"].ran : obs["w"].ran[i] = i
    /\ Len(obs["w"].ran) <= Len(acts["w"])
    /\ \A i \in Failing :
         /\ i = Len(obs["w"].ran)
         /\ err["w"] # NoErr
         /\ acts["w"][i].Result = FailedLine(err["w"])
         /\ pc["w"] \in {"clean", "ret", "after", "tick"}
         /\ pc["w"] # "tick" => /\ Last(job["w"].Log) = ErrLine(err["w"])
                                /\ sent[1].Log = job["w"].Log
    /\ (pc["w"] = "after" /\ obs["w"].planned) =>
         IF err["w"] = NoErr THEN Len(obs["w"].ran) = Len(acts["w"])
         ELSE Failing = {Len(obs["w"].ran)}

\* the second closure run has failed after a successful clone; the commit
\* and the regrade planned after it were not run
C13_Witness ==
  /\ job["w"].Spec.Kind = ReleaseKindExecute
  /\ pc["w"] = "after"
  /\ Failing # {} /\ Failing \subseteq OfType("update")
  /\ Len(obs["w"].ran) + 2 = Len(acts["w"])
  /\ OfType("regrade") # {} /\ batches["w"] = <<>>

\* the planner of caller p was run and returned an error
PlanningFailed(p) ==
  /\ obs[p].planner # "" /\ ~obs[p].planned
  /\ pc[p] \in {"ret", "after", "tick"}

\* the releaser of releaser.go: after a failed planning Release returns the
\* error, has run no closure, and Work writes the job as failed
C14_InWorker ==
  PlanningFailed("w") =>
    /\ err["w"] # NoErr
    /\ obs["w"].ran = <<>> /\ batches["w"] = <<>>
    /\ touched["w"] \cap {"clone", "write", "commit", "regrade"} = {}
    /\ pc["w"] = "tick" =>
         /\ sent[job["w"].ID].Finished /\ ~sent[job["w"].ID].Success
         /\ sent[job["w"].ID].Status = FailedLine(err["w"])

\* C14: when planning fails (the platform's service listing, a service
\* lookup or the latest-image lookup returns an error), Release returns a
\* non-nil error and no action closure is run, and the worker marks the job
\* failed; stated of the releaser the worker drives and of Releaser.Release.
C14_PlanFailureFails ==
  /\ C14_InWorker
  /\ (sync.returned /\ sync.pc = "idle" /\ sync.planErr # NoErr) =>
       (sync.ret.err # NoErr /\ sync.ran = <<>>)

\* the goroutines of the fan-out that are inside their query
InQuery == {t \in Tasks : srv.task[t] = "in"}

\* C15: at every instant, over the ListServices and ListImages calls in
\* progress on the server, at most 8 goroutines of the fan-out are inside
\* their query, each of them holding one slot of the semaphore.
C15_AtMostEight ==
  /\ Cardinality(InQuery) <= 8
  /\ Cardinality(InQuery) = srv.maxPlatform

\* eight goroutines, of both calls, are inside their query and a ninth waits
\* for a slot
C15_Witness ==
  /\ Cardinality(InQuery) = 8
  /\ \E t \in InQuery : t[1] = "ListImages"
  /\ \E t \in InQuery : t[1] = "ListServices"
  /\ \E t \in Tasks : srv.task[t] = "wait"

\* call c has fetched its service list and has returned
Listed(c) == srv.call[c].pc = "ret" /\ srv.call[c].ids # {}

\* C16: once the service list has been fetched, ListServices and ListImages
\* return a nil error after receiving exactly one message per spawned
\* goroutine; the result holds exactly the services whose query succeeded,
\* each once, and a failed query is logged and takes only its own service
\* out of the result.
C16_OneMessageEach ==
  \A c \in ListCalls :
    Listed(c) =>
      LET k == srv.call[c]
      IN /\ k.ret.err = NoErr
         /\ k.got = Cardinality(k.ids)
         /\ \A s \in ListedIDs :
              /\ k.res[s] + k.logged[s] = (IF s \in k.ids THEN 1 ELSE 0)
              /\ k.ret.res[s] = (IF s \in k.ids \ k.down THEN 1 ELSE 0)

\* ListServices has returned while the queries of two services failed: the
\* other services are in the result
C16_Witness ==
  /\ Listed("ListServices")
  /\ srv.call["ListServices"].down = {1, 2}
  /\ srv.call["ListServices"].ret.res[1] = 0
  /\ \A s \in ListedIDs \ {1, 2} : srv.call["ListServices"].ret.res[s] = 1
  /\ Listed("ListImages") /\ srv.call["ListImages"].ret.res[1] = 1

\* the table of planners: rows All and one service, columns Latest, NoChange
\* and an image
PlannerTable ==
  [all |-> [latest |-> "release_all_to_latest",
            none |-> "release_all_without_update",
            image |-> "release_all_for_image"],
   one |-> [latest |-> "release_one_to_latest",
            none |-> "release_one_without_update",
            image |-> "release_one"]]
TableRow(spec) ==
  LET row == IF spec.ServiceSpec = ServiceSpecAll THEN PlannerTable.all
             ELSE PlannerTable.one
  IN IF spec.ImageSpec = ImageSpecLatest THEN row.latest
     ELSE IF spec.ImageSpec = ImageSpecNone THEN row.none ELSE row.image

\* the first line each planner writes into its plan
OpeningLines ==
  [release_all_to_latest |->
     {"I'm going to release all services to their latest images."},
   release_all_without_update |->
     {"I'm going to release all services using the config from the git repo, without updating it."},
   release_all_for_image |->
     {"I'm going to release image to all services that would use it."},
   release_one_to_latest |->
     {"I'm going to release the latest images(s) for service"},
   release_one_without_update |->
     {"I'm going to release service using the config from the git repo, without updating it",
      "Specified service is excluded; ignoring."},
   release_one |-> {"I'm going to release image to service"}]

\* caller p is inside Release, past the semaphore, or has returned from it
Called(p) == pc[p] \in {"plan", "exec", "clean", "ret", "after"}
\* the call of caller p has returned from Release
Returned(p) == pc[p] = "after"
\* the call of caller p was turned away at the semaphore
Rejected(p) == Returned(p) /\ err[p] = ErrInProgress
\* the ServiceSpec of caller p's job is neither All nor a service ID
Unparsable(p) ==
  /\ job[p].Spec.ServiceSpec # ServiceSpecAll
  /\ ParseServiceID(job[p].Spec.ServiceSpec).err # NoErr

\* C17 as claimed: every call of Release runs exactly one planner, the one
\* the table gives for (ServiceSpec, ImageSpec).
C17_AsClaimed ==
  \A p \in Callers : Returned(p) => obs[p].planner = TableRow(job[p].Spec)

\* C17: Release chooses the planner from (ServiceSpec, ImageSpec) as the
\* table says, and at most one planner runs per call: exactly one when the
\* call gets the semaphore and the ServiceSpec is All or parses as a
\* service ID, none when the call is turned away or the ID does not parse.
C17_Dispatch ==
  \A p \in Callers :
    Called(p) =>
    /\ obs[p].planner \in {"", TableRow(job[p].Spec)}
    /\ Returned(p) =>
         (obs[p].planner = "" <=> (Rejected(p) \/ Unparsable(p)))
    /\ (Returned(p) /\ Unparsable(p) /\ ~Rejected(p)) =>
         (err[p] = ParseServiceID(job[p].Spec.ServiceSpec).err /\ acts[p] = <<>>)
    /\ obs[p].planned =>
         acts[p][1].Description.text \in OpeningLines[obs[p].planner]

\* a call for all services without update has returned with the plan of
\* its one planner
C17_Witness ==
  /\ Returned("w") /\ obs["w"].planner = "release_all_without_update"
  /\ obs["w"].planned /\ Len(acts["w"]) > 3
  /\ job["w"].Spec.ServiceSpec = ServiceSpecAll
  /\ job["w"].Spec.ImageSpec = ImageSpecNone

\* a plan without update was computed for the worker's job
NoChangePlanned == obs["w"].planned /\ job["w"].Spec.ImageSpec = ImageSpecNone
\* the job names one service and excludes it
OneExcluded ==
  /\ job["w"].Spec.ServiceSpec # ServiceSpecAll
  /\ job["w"].Spec.ServiceSpec \in job["w"].Spec.Excludes
\* one clone, one find per candidate, one regrade naming the candidates, no
\* update and no commit
CloneFindRegrade ==
  /\ Cardinality(OfType("clone")) = 1
  /\ Cardinality(OfType("find")) = Cardinality(obs["w"].cand)
  /\ {acts["w"][i].services : i \in OfType("find")} = {<<s>> : s \in obs["w"].cand}
  /\ Cardinality(OfType("regrade")) = 1
  /\ \A i \in OfType("regrade") : Range(acts["w"][i].services) = obs["w"].cand
  /\ OfType("update") = {} /\ OfType("commit") = {}
\* the call has written no file in the checkout and pushed no commit
NothingWritten == touched["w"] \cap {"write", "commit"} = {}

\* C18 as claimed: every plan without update holds one clone, one find per
\* candidate and one regrade-services, no update and no commit, and its
\* execution writes no file and pushes no commit.
C18_AsClaimed == NoChangePlanned => (CloneFindRegrade /\ NothingWritten)

\* C18: a plan without update (one service or all services) holds one
\* clone, one find-pod-controller per candidate and one regrade-services
\* naming the candidates, no update-pod-controller and no commit-and-push,
\* unless the one service named is excluded: then it holds one
\* informational line only. Executing it writes no file in the checkout
\* and pushes no commit.
C18_NoChangePlan ==
  NoChangePlanned =>
    /\ IF OneExcluded THEN Informational = {1} /\ Len(acts["w"]) = 1
       ELSE CloneFindRegrade
    /\ NothingWritten

\* the plan without update of all services, two of them, has been executed
\* to its end
C18_Witness ==
  /\ NoChangePlanned /\ pc["w"] = "after" /\ err["w"] = NoErr
  /\ job["w"].Spec.Kind = ReleaseKindExecute
  /\ Cardinality(obs["w"].cand) = 2
  /\ Len(obs["w"].ran) = Len(acts["w"])
  /\ batches["w"] # <<>>

\* the container regrades of the worker's plan: action, position
PlannedRegrades ==
  {<<i, k>> \in OfType("update") \X (1..2) : k \in DOMAIN acts["w"][i].regrades}
\* the services an update action of the plan names
Updated == UNION {Range(acts["w"][i].services) : i \in OfType("update")}

\* C19: every container regrade of a plan has a target of the current
\* image's repository and different from the current image; a container
\* that runs the target already gets a log line and no regrade.
C19_RegradesChange ==
  obs["w"].planned =>
    /\ \A x \in PlannedRegrades :
         LET g == acts["w"][x[1]].regrades[x[2]]
         IN /\ Repository(g.target) = Repository(g.current)
            /\ g.target # g.current
    /\ \A i \in OfType("update") : acts["w"][i].regrades # <<>>
    /\ Updated \cap obs["w"].same = {}
    /\ Cardinality(SkipLines) = Cardinality(obs["w"].same)

\* one service of the plan is regraded from r:1 to r:2 while the other runs
\* the target already and got its log line
C19_Witness ==
  /\ obs["w"].planned
  /\ \E x \in PlannedRegrades :
       LET g == acts["w"][x[1]].regrades[x[2]]
       IN g.current = ParseImageID("r:1") /\ g.target = ParseImageID("r:2")
  /\ obs["w"].same # {} /\ SkipLines # {}

\* this step calls UpdateJob for job id
Updates(id) == sent'[id] # sent[id]
\* this step is one of the worker's task: the second caller stands still
WorkerStep ==
  /\ pc'["d"] = pc["d"] /\ job'["d"] = job["d"] /\ ai'["d"] = ai["d"]
  /\ acts'["d"] = acts["d"] /\ obs'["d"] = obs["d"]
\* the worker's task has dequeued job id and holds it
Dequeued(id) == job'["w"].ID = id /\ handed'[id] <= 1

\* C20: once UpdateJob was called with the Finished record of a job, no
\* later UpdateJob call is made for that job; every UpdateJob call for a
\* queued job is made by the worker's task, which has dequeued the job.
C20_SoleWriter ==
  [][\A id \in 1..MaxJobs :
       Updates(id) => (~sent[id].Finished /\ WorkerStep /\ Dequeued(id))]_vars

\* both jobs were written as finished by the worker, one after the other,
\* with log lines of their Release calls, while the second caller has
\* written its own job
C20_Witness ==
  /\ sent[1].Finished /\ sent[2].Finished /\ pc["w"] = "tick"
  /\ sent[1].Log # <<>> /\ sent[2].Log # <<>>
  /\ sent[DirectID].Log # <<>>

\* the keys of a RegradeError
ErrorKeys(e) == {s \in Services : e[s] # ""}
\* the last spec of the batch for service s that was applied, 0 for none
LastApplied(s) ==
  LET is == {i \in cluster.done : cluster.specs[i].service = s}
  IN IF is = {} THEN 0 ELSE SetMax(is)

\* C21 as claimed: when Regrade has returned, either it returned nil and
\* every spec of the batch was applied, or it returned an error and no
\* definition of the batch was applied.
C21_AsClaimed ==
  cluster.returned =>
    IF ErrorKeys(cluster.ret) = {} THEN cluster.done = DOMAIN cluster.specs
    ELSE cluster.done = {}

\* C21: Regrade works through the batch spec by spec: when it has returned,
\* every spec was either applied or has its service as a key of the
\* RegradeError returned; the error is nil exactly when every spec was
\* applied; the specs that did not fail have been applied although others
\* of the batch failed (the pod controller runs the definition of the last
\* applied spec for its service).
C21_SpecBySpec ==
  cluster.returned =>
    /\ \A i \in DOMAIN cluster.specs :
         i \in cluster.done \/ cluster.specs[i].service \in ErrorKeys(cluster.ret)
    /\ ErrorKeys(cluster.ret) \subseteq
         {cluster.specs[i].service : i \in DOMAIN cluster.specs \ cluster.done}
    /\ ErrorKeys(cluster.ret) = {} <=> cluster.done = DOMAIN cluster.specs
    /\ \A s \in Services :
         LastApplied(s) # 0 =>
           cluster.applied[s] = cluster.specs[LastApplied(s)].NewDefinition
    /\ cluster.inProgress = {}

\* a batch of two has returned with an error for its first service while
\* the definition of the second was applied
C21_Witness ==
  /\ cluster.returned /\ Len(cluster.specs) = 2
  /\ cluster.specs[1].service # cluster.specs[2].service
  /\ ErrorKeys(cluster.ret) = {cluster.specs[1].service}
  /\ cluster.done = {2}
  /\ cluster.applied[cluster.specs[2].service] = cluster.specs[2].NewDefinition

\* the events written after the Regrade call of batch b that report how
\* the regrade of service s ended
Reports(b, s) ==
  {i \in (b.histLen + 1)..Len(history) :
     /\ history[i].service = s /\ history[i].job = b.job
     /\ history[i].msg \in {"Regrade: done", "Regrade: failed: "}}

\* C22: every service of the batch handed to the platform is reported once:
\* as failed, with the platform's message, if and only if it is a key of
\* the RegradeError returned, and as done otherwise.
C22_ErrorsDistributed ==
  \A k \in DOMAIN batches["w"] :
    LET b == batches["w"][k]
    IN \A s \in b.batch :
         /\ Cardinality(Reports(b, s)) = 1
         /\ \A i \in Reports(b, s) :
              IF s \in b.failed
              THEN history[i].msg = "Regrade: failed: "
                   /\ history[i].err = "regrade error"
              ELSE history[i].msg = "Regrade: done" /\ history[i].err = ""

\* a batch of two services was handed over; the platform failed one of
\* them, the other is reported as done
C22_Witness ==
  \E k \in DOMAIN batches["w"] :
    LET b == batches["w"][k]
    IN /\ Cardinality(b.batch) = 2 /\ Cardinality(b.failed) = 1
       /\ \E s \in b.batch \ b.failed :
            \E i \in Reports(b, s) : history[i].msg = "Regrade: done"

\* the execute of caller p's plan is over: every planned action has run,
\* or the first failing one has returned
ExecutionOver(p) ==
  obs[p].planned =>
    IF err[p] = NoErr
    THEN /\ ai[p] = Len(acts[p]) + 1
         /\ RunsClosure(job[p].Spec.Kind) => Len(obs[p].ran) = Len(acts[p])
    ELSE /\ obs[p].ran # <<>>
         /\ acts[p][obs[p].ran[Len(obs[p].ran)]].Result = FailedLine(err[p])

\* C23: the semaphore stays taken from the moment a Release call acquires
\* it until the last planned action has run (or the first failing action
\* has returned): the token is given back only by the call that holds it,
\* in the step in which it returns, and a Release started by another
\* caller in between does not get it.
C23_HeldThroughout ==
  /\ [](\A p \in Callers : Past(p) => sem = 1)
  /\ [][\A p \in Callers :
          Past(p) =>
            /\ sem' # sem =>
                 (pc[p] = "ret" /\ pc'[p] = "after" /\ ExecutionOver(p))
            /\ \A q \in Callers \ {p} : StartsRelease(q) => ~Past(q)']_vars

\* the second caller holds the semaphore with its plan run to the end, and
\* the worker's call made meanwhile was turned away
C23_Witness ==
  /\ pc["d"] = "exec" /\ obs["d"].planned /\ obs["d"].ran # <<>>
  /\ ai["d"] > Len(acts["d"])
  /\ pc["w"] = "after" /\ err["w"] = ErrInProgress

\* the regrade-services actions of the worker's plan whose closure has run
RegradesRun ==
  {k \in DOMAIN obs["w"].ran : acts["w"][obs["w"].ran[k]].type = "regrade"}

\* C24: in the execution of one job the platform's Regrade is called at
\* most once, by the regrade-services action and by no other, with every
\* service the action names that has a definition in one batch.
C24_OneRegradeCall ==
  /\ Len(batches["w"]) <= 1
  /\ Len(batches["w"]) = Cardinality(RegradesRun)
  /\ \A k \in DOMAIN batches["w"] :
       \A i \in OfType("regrade") :
         batches["w"][k].batch = Range(acts["w"][i].services) \cap batches["w"][k].keys

\* the one call of a job carried the definitions of two services
C24_Witness ==
  /\ Len(batches["w"]) = 1 /\ Cardinality(batches["w"][1].batch) = 2
  /\ pc["w"] = "after"
  /\ OfType("update") # {}

\* the history events written for the worker's job
JobEvents == {i \in DOMAIN history : history[i].job = job["w"].ID}
\* the actions of the plan whose closure returned without error
Succeeded ==
  {i \in Range(obs["w"].ran) :
     acts["w"][i].Result # NoLine /\ acts["w"][i].Result.pre # "Failed: "}

\* C25: in a job whose plan has a commit-and-push, the platform is asked to
\* regrade and regrade events are written only after the commit-and-push
\* closure has returned without error; when clone, update-pod-controller
\* or commit-and-push fails, the platform is not asked and no event is
\* written.
C25_RegradeAfterPush ==
  (obs["w"].planned /\ OfType("commit") # {}) =>
    /\ (batches["w"] # <<>> \/ JobEvents # {}) => OfType("commit") \subseteq Succeeded
    /\ (\E i \in Failing : acts["w"][i].type \in {"clone", "update", "commit"}) =>
         (batches["w"] = <<>> /\ JobEvents = {})

\* the push of a job has failed after a file was written: the job is over
\* and the platform was not asked
C25_Witness ==
  /\ obs["w"].planned /\ pc["w"] = "after"
  /\ \E i \in Failing : acts["w"][i].type = "commit"
  /\ "write" \in touched["w"] /\ "commit" \in touched["w"]
  /\ batches["w"] = <<>> /\ JobEvents = {}

\* log a is the beginning of log b
IsPrefix(a, b) == Len(a) <= Len(b) /\ SubSeq(b, 1, Len(a)) = a
\* this step appends a line to the log of caller p's job, inside Release
AppendsLine(p) == Past(p) /\ Len(job'[p].Log) > Len(job[p].Log)

\* C26 as claimed: during Release the persisted log is always the
\* in-memory log or the in-memory log without its last line: when the next
\* line is appended, the line before it is in the store.
C26_AsClaimed ==
  [][\A p \in Callers : AppendsLine(p) => store[job[p].ID].Log = job[p].Log]_vars

\* C26: during Release every line appended to job.Log is handed to
\* UpdateJob with the log it ends before the next line is appended, so the
\* log of the latest UpdateJob call is the in-memory log; the persisted
\* log is a beginning of it, and is all of it unless an UpdateJob call has
\* failed (Release does not look at what UpdateJob returns).
C26_LogHandedOver ==
  \A p \in Callers :
    Past(p) =>
      /\ sent[job[p].ID].Log = job[p].Log
      /\ IsPrefix(store[job[p].ID].Log, job[p].Log)
      /\ nfail = 0 => store[job[p].ID].Log = job[p].Log

\* an UpdateJob call of a running Release has failed: the store lacks the
\* line that the latest call carried
C26_Witness ==
  /\ pc["w"] = "exec" /\ Len(job["w"].Log) >= 3
  /\ sent[job["w"].ID].Log = job["w"].Log
  /\ Len(store[job["w"].ID].Log) < Len(job["w"].Log)

\* the worker is between its first UpdateJob for a job and its final one
MidJob == pc["w"] \in {"call", "plan", "exec", "clean", "ret", "after"}
Executing == Line("Executing...", {})
\* the status of a job as the worker holds it in the middle of the job
RunningStatus(j) == IF j.Log = <<>> THEN Executing ELSE Last(j.Log)

C28_AsClaimed ==
  \A id \in 1..MaxJobs : sent[id].Started ~> store[id].Finished

\* C28: every job the worker dequeues eventually has its final record,
\* with Finished set and the status "Complete." or "Failed: ...", handed
\* to UpdateJob; the store then holds a Finished record unless an
\* UpdateJob call failed.
C28_FinalWrite ==
  /\ \A id \in 1..MaxJobs :
       sent[id].Started ~>
         (sent[id].Finished /\ (sent[id].Status = Line("Complete.", {})
                                 \/ sent[id].Status.pre = "Failed: "))
  /\ [](\A id \in 1..MaxJobs :
          (sent[id].Finished /\ nfail = 0) => store[id].Finished)

\* the worker's job was refused while the second caller held the
\* semaphore, and its final record is in the store
C28_Witness ==
  /\ pc["w"] = "tick" /\ err["w"] = ErrInProgress
  /\ store[job["w"].ID].Finished /\ sent[job["w"].ID] = store[job["w"].ID]

\* job id waits in the queue
Queued(id) == \E i \in DOMAIN queue : queue[i] = id
\* Release has been called for job id
Run(id) == handed[id] >= 1

\* C29: whatever failed before (a job, a NextJob call, an UpdateJob call),
\* the worker is back at its tick once the job it holds is done, every
\* queued job is eventually dequeued and handed to Release, and Release is
\* called for a dequeued job whether or not the first UpdateJob succeeded.
C29_LoopGoesOn ==
  /\ \A id \in 1..MaxJobs : Queued(id) ~> Run(id)
  /\ \A id \in 1..MaxJobs : (sent[id].Started /\ ~store[id].Started) ~> Run(id)
  /\ []<>(pc["w"] = "tick")

\* the first job failed, then a store call failed (NextJob, or the first
\* UpdateJob of the second job), and the second job is in Release
C29_Witness ==
  /\ sent[1].Finished /\ ~sent[1].Success /\ store[1] = sent[1]
  /\ nfail > 0
  /\ Run(2) /\ Past("w") /\ job["w"].ID = 2

\* the update-pod-controller actions of the worker's job whose closure ran
UpdatesRun == OfType("update") \cap Range(obs["w"].ran)
\* ... and found the definition file and returned no error
UpdatesDone ==
  {i \in UpdatesRun : acts["w"][i].Result = Line("Update pod controller OK.", {})}
\* the checkout of the worker's job is still there
InCheckout == pc["w"] \in {"exec", "clean"} /\ rc["w"].RepoPath \in dirs
\* action i has rewritten the file of its service once, for each of its
\* regrades in turn, kept the mode, and put the bytes in the release context
Rewrote(i) ==
  LET s == acts["w"][i].services[1]
      def == Def(s, Targets(acts["w"][i].regrades))
  IN /\ files["w"].work[s] = File(def, FileMode(s), 1)
     /\ s \in DOMAIN rc["w"].PodControllers
     /\ rc["w"].PodControllers[s] = files["w"].work[s].def
\* what the platform was sent for the updated services is what was pushed
SentIsPushed ==
  \A k \in DOMAIN batches["w"] :
    \A i \in UpdatesDone :
      LET s == acts["w"][i].services[1]
      IN s \in batches["w"][k].batch =>
           /\ s \in DOMAIN files["w"].pushed
           /\ batches["w"][k].defs[s] = files["w"].pushed[s]

\* C30 as claimed: every executed update-pod-controller action has
\* written its file exactly once and stored the written bytes.
C30_AsClaimed == InCheckout => \A i \in UpdatesRun : Rewrote(i)

\* C30: an executed update-pod-controller action that found the
\* definition file of its service and returned no error has applied the
\* rewrites of its k regrades one after another to the bytes it read,
\* written the file exactly once with the mode the file had, and stored
\* the written bytes in PodControllers[service]; the definition sent to
\* the platform for that service is the content that was committed.
C30_WrittenIsSent ==
  /\ InCheckout => \A i \in UpdatesDone : Rewrote(i)
  /\ Past("w") => SentIsPushed

\* a service with its file rewritten, committed and sent to the platform
C30_Witness ==
  /\ InCheckout /\ batches["w"] # <<>>
  /\ \E i \in UpdatesDone :
       /\ Rewrote(i) /\ Len(acts["w"][i].regrades) >= 2
       /\ acts["w"][i].services[1] \in batches["w"][1].batch
       /\ batches["w"][1].defs[acts["w"][i].services[1]] =
            files["w"].pushed[acts["w"][i].services[1]]

\* this step runs the closure of a find- or update-pod-controller action
\* of caller p
RunsFileAction(p) ==
  /\ pc[p] = "exec" /\ ai[p] <= Len(acts[p])
  /\ acts[p][ai[p]].type \in {"find", "update"}
  /\ obs'[p].ran # obs[p].ran
\* ... which found no file, or more than one, for its service
FoundNone(p) ==
  /\ RunsFileAction(p)
  /\ \/ acts'[p][ai[p]].Result.text = "no resource definition file found; skipping"
     \/ acts'[p][ai[p]].Result.text = "no resource definition file found"
FoundSeveral(p) ==
  /\ RunsFileAction(p)
  /\ acts'[p][ai[p]].Result.text = "multiple resource definition files found for"

\* C31: a find- or update-pod-controller action that finds no file for its
\* service returns the skip message with no error, leaves PodControllers
\* and the checkout as they were, and execute goes on to the next action;
\* one that finds several files returns an error and execute ends at that
\* action.
C31_SkipOrAbort ==
  [][\A p \in Callers :
       /\ FoundNone(p) =>
            /\ acts'[p][ai[p]].Result =
                 Line("no resource definition file found; skipping",
                      {acts[p][ai[p]].services[1]})
            /\ err'[p] = NoErr
            /\ rc'[p] = rc[p] /\ files' = files /\ dirs' = dirs
            /\ pc'[p] = "exec" /\ ai'[p] = ai[p] + 1
       /\ FoundSeveral(p) =>
            /\ acts'[p][ai[p]].Result.pre = "Failed: "
            /\ err'[p] # NoErr
            /\ rc'[p] = rc[p] /\ files' = files
            /\ pc'[p] = "clean" /\ ai'[p] = ai[p]]_vars

\* an action was skipped for want of a file and a later action has run
C31_Witness ==
  \E i \in Range(obs["w"].ran) :
    /\ acts["w"][i].type \in {"find", "update"}
    /\ acts["w"][i].Result.text = "no resource definition file found; skipping"
    /\ \E k \in Range(obs["w"].ran) : k > i

\* the services of the specs of the running closure that did not succeed
FailedServices == {cluster.specs[i].service : i \in DOMAIN cluster.specs \ cluster.done}

\* C32: when Regrade has returned, every spec of the batch was attempted,
\* whatever became of the specs before it; the error is nil exactly when
\* every spec succeeded, and otherwise its keys are exactly the services
\* of the specs that failed; the caller has received that error (and may
\* have called again).
C32_ErrorIsFailedSpecs ==
  cluster.returned =>
    /\ cluster.tried = DOMAIN cluster.specs
    /\ ErrorKeys(cluster.ret) = {} <=> cluster.done = DOMAIN cluster.specs
    /\ ErrorKeys(cluster.ret) = FailedServices
    /\ cluster.call[cluster.caller].pc \in {"done", "send"}
    /\ cluster.call[cluster.caller].pc = "done" =>
         cluster.call[cluster.caller].ret = cluster.ret

\* both specs of a batch failed, each in its own way, and both are keys
C32_Witness ==
  /\ cluster.returned /\ Len(cluster.specs) = 2 /\ cluster.tried = {1, 2}
  /\ cluster.specs[1].service # cluster.specs[2].service
  /\ cluster.ret[cluster.specs[1].service] = "reading definition"
  /\ cluster.ret[cluster.specs[2].service] = "releasing"

\* the callers whose batch is being executed
InExecution == {c \in RegradeCallers : cluster.call[c].pc = "wait"}

\* C33: at most one batch is being executed at any instant, and it is the
\* batch of the caller the loop serves; while a batch is executed the loop
\* stays with it, spec after spec, until it hands the result to the caller
\* the batch came from.
C33_Serialized ==
  /\ [](/\ Cardinality(InExecution) <= 1
        /\ cluster.pc = "run" =>
             /\ InExecution = {cluster.caller}
             /\ cluster.specs = cluster.call[cluster.caller].specs)
  /\ [][cluster.pc = "run" =>
          /\ cluster'.pc = "run" =>
               /\ cluster'.caller = cluster.caller
               /\ cluster'.specs = cluster.specs
               /\ cluster'.i >= cluster.i
          /\ cluster'.pc = "idle" =>
               /\ cluster'.call[cluster.caller].pc = "done"
               /\ ErrorKeys(cluster'.call[cluster.caller].ret) = FailedServices
               /\ \A c \in RegradeCallers \ {cluster.caller} :
                    cluster'.call[c] = cluster.call[c]]_vars

\* a second caller is blocked while the loop is in the middle of the batch
\* of the first
C33_Witness ==
  /\ cluster.pc = "run" /\ cluster.caller = 1
  /\ Len(cluster.specs) = 2 /\ cluster.i = 2
  /\ cluster.call[2].pc = "send"

\* ---------------------------------------------------------------- C34
\* the lines of a level a load logged for a resource
Logged(load, level, r) ==
  Cardinality({k \in DOMAIN load.log :
                 load.log[k] = [level |-> level, res |-> r]})
\* the load asked for the scope of r and got this answer
Asked(load, r, answer) == r \in load.looked /\ load.in[r] = answer
\* the warning is logged once by the load that first cannot find the scope
\* or cannot find it after it was found, "found scope" once by the load
\* that finds a scope that was not found, and by no other load
LogsOnChange(before, load) ==
  \A r \in ManifestIDs :
    /\ Logged(load, "warn", r) =
         (IF Asked(load, r, "not found") /\ before[r] # "not found" THEN 1 ELSE 0)
    /\ Logged(load, "info", r) =
         (IF Asked(load, r, "found") /\ before[r] = "not found" THEN 1 ELSE 0)

\* C34 as claimed: the warning is logged when the scope first is not found
\* and when it is lost again, "found scope" when it is found after that,
\* each once, and the load that logs "found scope" returns the resource
C34_AsClaimed ==
  [][manifests' # manifests =>
       /\ LogsOnChange(manifests.last, manifests'.load)
       /\ \A r \in ManifestIDs :
            Logged(manifests'.load, "info", r) = 1 => r \in manifests'.load.result]_vars

\* C34 amended: the same, and the load that logs "found scope" returns the
\* resource unless it returns an error; a load without error returns exactly
\* the resources whose scope it found
C34_WarnsOnChange ==
  [][manifests' # manifests =>
       /\ LogsOnChange(manifests.last, manifests'.load)
       /\ ~manifests'.load.err =>
            manifests'.load.result =
              {r \in ManifestIDs : manifests'.load.in[r] = "found"}
       /\ manifests'.load.err => manifests'.load.result = {}]_vars

\* four loads: not found (warning), still not found (nothing), found
\* ("found scope", resource returned), lost again (warning)
C34_Witness ==
  /\ manifests.nloads = 4
  /\ manifests.log =
       <<[level |-> "warn", res |-> "bar:foo/fooinstance"],
         [level |-> "info", res |-> "bar:foo/fooinstance"],
         [level |-> "warn", res |-> "bar:foo/fooinstance"]>>
  /\ Logged(manifests.load, "warn", "bar:foo/fooinstance") = 1
  /\ ~manifests.load.err

\* ---------------------------------------------------------------- C35
\* the commands the configuration has for the function called
Configured ==
  CASE cfexec.fn = "ExecGenerators" -> GeneratorCommands(cfexec.cf)
    [] cfexec.fn = "ExecContainerImageUpdaters" ->
         UpdaterCommands(cfexec.cf, "ContainerImage")
    [] OTHER -> UpdaterCommands(cfexec.cf, "Annotation")
\* the commands run are the first ones of the configured commands
RanInOrder == IsPrefix(cfexec.ran, Configured)
\* one result per command run, in that order
ResultPerCommand ==
  /\ Len(cfexec.result) = Len(cfexec.ran)
  /\ \A k \in DOMAIN cfexec.result : cfexec.result[k].Output = cfexec.ran[k]
\* only the last result can carry an error
OnlyLastFails ==
  \A k \in DOMAIN cfexec.result :
    cfexec.result[k].Error # "" => k = Len(cfexec.result)
\* the commands go on until one fails or all have run
StopsAtFailure ==
  \/ cfexec.err # "" /\ cfexec.ran = <<>>
  \/ Len(cfexec.ran) = Len(Configured)
  \/ /\ cfexec.ran # <<>>
     /\ cfexec.result[Len(cfexec.result)].Error # ""

\* C35: the three Exec functions run the configured commands in order,
\* return one result per command run, and stop at the first command that
\* fails, so that only the last result can carry an error
C35_StopAtFirstFailure ==
  cfexec.fn # "" =>
    RanInOrder /\ ResultPerCommand /\ OnlyLastFails /\ StopsAtFailure

\* three updaters, the second fails: two commands ran, two results, the
\* error in the second
C35_Witness ==
  /\ cfexec.fn = "ExecContainerImageUpdaters"
  /\ Len(Configured) = 3
  /\ cfexec.ran = <<<<"uci", 1>>, <<"uci", 2>>>>
  /\ cfexec.result[1].Error = "" /\ cfexec.result[2].Error = "exit 1"

\* ---------------------------------------------------------------- C36
\* SelectWorkloads has returned without error
Selected == sel.pc = "done" /\ sel.out.err = ""
\* the prefilters reject the defined workload s
FilteredOut(s) == s \in sel.in.defined /\ sel.in.pre[s].Error # ""
\* what holds of the workloads that were not rejected, and of the updates
SelectedRest ==
  /\ \A s \in sel.in.defined : sel.out.results[s] # NoResult
  /\ \A s \in sel.in.defined :
       ~FilteredOut(s) /\ s \notin sel.in.running =>
         sel.out.results[s] = WorkloadResult("skipped", "not accessible in cluster")
  /\ sel.out.updates =
       {s \in sel.in.defined \cap sel.in.running :
          sel.in.post[s].Status \in {"success", ""}}
\* the cluster returns a workload that is not defined: an error
UndefinedIsError ==
  sel.pc = "done" /\ sel.in.definedErr = "" /\ sel.in.clusterErr = ""
    /\ sel.in.running \ sel.in.defined # {}
  => sel.out.err # "" /\ sel.out.updates = {}

NoneInside == \A p \in Callers : ~Past(p)
\* the step in which the Release call of caller p, which had the token,
\* returns
ReturnsRelease(p) == pc[p] = "ret" /\ pc'[p] = "after"

\* C37: when a Release that had acquired the semaphore returns, whatever
\* the path (service ID parse error, planner error, action error, success),
\* the slot is free, and a Release that starts while no other is inside is
\* not turned away as already in progress.
C37_SlotFreed ==
  /\ [](NoneInside => sem = 0)
  /\ [][\A p \in Callers :
          /\ ReturnsRelease(p) => sem' = 0
          /\ (StartsRelease(p) /\ NoneInside) =>
               (pc'[p] = "plan" /\ err'[p] # ErrInProgress)]_vars

\* the worker's first job ended with the error of an action and was
\* written as failed; its second Release, started after that, has the
\* semaphore
C37_Witness ==
  /\ store[1].Finished /\ ~store[1].Success
  /\ store[1].Spec.Kind = ReleaseKindExecute
  /\ Len(store[1].Log) > 3
  /\ job["w"].ID = 2 /\ pc["w"] = "plan" /\ sem = 1

\* ---------------------------------------------------------------- C39
\* the job was written as failed with the error of the semaphore
FailedInProgress(j) ==
  j.Status = FailedLine(ErrInProgress) \/ FailedLine(ErrInProgress) \in Range(j.Log)

\* C39: with the worker loop as the only caller of its releaser no Release
\* call returns the "a release is already in progress" error, and no job
\* the worker has dequeued is written as failed with that error.
C39_WorkerNeverRejected ==
  /\ err["w"] # ErrInProgress
  /\ ~FailedInProgress(job["w"])
  /\ \A i \in JobIDs : ~FailedInProgress(store[i])
  /\ pc["w"] \in {"plan", "exec", "clean", "ret"} <=> sem = 1

\* the worker has run its two jobs one after the other, the first ended
\* with an error of its own, the second went through
C39_Witness ==
  /\ queue = <<>> /\ pc["w"] = "tick"
  /\ store[1].Finished /\ ~store[1].Success
  /\ store[2].Finished /\ store[2].Success
  /\ handed[1] = 1 /\ handed[2] = 1

\* ---------------------------------------------------------------- C38
\* the goroutines that hold a slot of s.maxPlatform
Holding == {t \in Tasks : srv.task[t] = "in"}

GotMap(g) == cm.g[g].got.loaded
\* the step in which goroutine g's modification returns an error
ModifyFails(g) ==
  cm.g[g].op = "modify" /\ cm.g[g].pc = "write" /\ cm'.g[g].ret = "error"

\* C40: a map that getResourcesByID returns was not loaded before a
\* modification that had returned successfully when the call began, also
\* when loads and modifications of two goroutines overlap; a modification
\* that returns an error leaves cm.resourcesByID as it was.
C40_CacheNotStale ==
  /\ [](\A g \in Goroutines : GotMap(g) => cm.g[g].got.ver >= cm.g[g].since)
  /\ [][\A g \in Goroutines :
          ModifyFails(g) => cm'.resourcesByID = cm.resourcesByID]_vars

====
